---- MODULE Spec2Model ----
(***************************************************************************)
(* clusterctl: provider installation / validation, provider teardown and   *)
(* the pivot of a management cluster (provider components and the graph of *)
(* Cluster API objects) from a source object store to a target one.        *)
(*                                                                         *)
(* A management cluster is modelled by three collections, which partition  *)
(* the objects of its object store by the class of their Kind:             *)
(*   objs[side]  the Cluster API graph objects (Cluster, MachineDeployment,*)
(*               MachineSet, Machine, Secret, infrastructure / bootstrap   *)
(*               reference objects);                                       *)
(*   comp[side]  the provider components (Namespace, CRD, Deployment, ...);*)
(*   prov[side]  the Provider records of the metadata registry.            *)
(* side is "src" (the cluster clusterctl works on, the source of a pivot)  *)
(* or "tgt" (the target of a pivot).                                       *)
(***************************************************************************)
EXTENDS Integers, Sequences, FiniteSets, TLC

VARIABLES
    objs,       \* [src, tgt] -> set of graph objects
    comp,       \* [src, tgt] -> set of provider component objects
    prov,       \* [src, tgt] -> set of Provider records (the registry)
    pc,         \* objectsClient.Pivot: "idle", "running", "done", "failed"
    stack,      \* the calls objectsClient.Pivot still has to make, in order
    hist,       \* how each finished objectsClient.Pivot call ended: "ok",
                \* "notready" (the Cluster resources could not be listed),
                \* "store" (a store call failed), "state" (an object was
                \* missing from the source or already in the target),
                \* "timeout" (a Machine got no node reference in time)
    faults,     \* number of store errors injected so far
    objs0,      \* objs when the current objectsClient.Pivot call started
    orig,       \* objs.src when the first objectsClient.Pivot call started
    installQueue, \* installerService.installQueue
    inst,       \* what the installers did: see NoInst
    piv,        \* where moverService.Pivot is: see NoPiv
    del,        \* the last providerComponents.Delete call: see NoDel
    crds,       \* [src, tgt] -> set of the registry's own schema objects
    cli,        \* the last call of a clusterctlClient operation: see NoCli
    crt,        \* the providerComponents.Create call: see NoCrt
    cm          \* the objectsClient.CreateMachines call: see NoCm

moverVars == <<pc, stack, hist, faults, objs0, orig>>
storeVars == <<objs, comp, prov>>
clientVars == <<crds, cli, crt, cm>>
otherVars == <<installQueue, inst, piv, del, clientVars>>
vars == <<objs, comp, prov, pc, stack, hist, faults, objs0, orig,
          installQueue, inst, piv, del, crds, cli, crt, cm>>

(***************************************************************************)
(* Bounds of the model.                                                    *)
(***************************************************************************)
MaxFaults == 1      \* store errors injected in one behaviour
MaxRuns == 2        \* objectsClient.Pivot calls in one behaviour
MaxQueue == 2       \* bundles in the queue of an installer
MaxCalls == 2       \* EnsureMetadata calls on a cluster in one behaviour
MaxCreates == 2     \* providerComponents.Create calls in one behaviour
MaxRecords == 2     \* Provider records installed when a default is asked for
MaxMachines == 3    \* Machines in the batch of a CreateMachines call

(***************************************************************************)
(* Sequences helpers.                                                      *)
(***************************************************************************)
RECURSIVE Flatten(_)
Flatten(ss) == IF ss = <<>> THEN <<>> ELSE Head(ss) \o Flatten(Tail(ss))

(***************************************************************************)
(* Names.  A store lists its objects in the order of their keys            *)
(* (namespace/name), so a List call returns them sorted by name.           *)
(***************************************************************************)
AllNames ==
    <<"aws", "boot", "c1", "c1-kubeconfig", "c10", "c10-kubeconfig", "core",
      "d1", "d2", "m1", "m2", "m3", "ns1", "ns2", "ns3", "s1", "s2">>

NameRank(n) == CHOOSE i \in 1..Len(AllNames) : AllNames[i] = n

RECURSIVE SortByName(_)
SortByName(S) ==
    IF S = {} THEN <<>>
    ELSE LET first == CHOOSE o \in S :
                        \A p \in S : NameRank(o.name) <= NameRank(p.name)
         IN <<first>> \o SortByName(S \ {first})

(***************************************************************************)
(* Graph objects.                                                          *)
(***************************************************************************)
NoRef == [kind |-> "", name |-> ""]

Ref(kind, name) == [kind |-> kind, name |-> name]

\* metav1.ObjectMeta.UID: assigned by the store that created the object
UID(side, kind, name) == <<side, kind, name>>

\* metav1.OwnerReference
OwnerRef(kind, name, controller, side) ==
    [kind |-> kind, name |-> name, controller |-> controller,
     uid |-> UID(side, kind, name)]

Obj(kind, name, label, owners, infra, boot, fin, dts) ==
    [kind |-> kind, ns |-> "ns1", name |-> name, label |-> label,
     owners |-> owners, infra |-> infra, boot |-> boot,
     fin |-> fin, dts |-> dts, rv |-> "1", uid |-> UID("src", kind, name)]

Ident(o) == [kind |-> o.kind, ns |-> o.ns, name |-> o.name]

Idents(S) == {Ident(o) : o \in S}

Has(S, id) == \E o \in S : Ident(o) = id

Lookup(S, id) == CHOOSE o \in S : Ident(o) = id

OfKind(S, kind) == {o \in S : o.kind = kind}

RefKinds == {"ProviderCluster", "ProviderMachineTemplate", "ProviderMachine",
             "BootstrapConfig"}


\* metav1.GetControllerOf: the owner reference with Controller = true, if any
HasController(o) == \E r \in o.owners : r.controller

GetControllerOf(o) == CHOOSE r \in o.owners : r.controller

\* metav1.IsControlledBy: the controller reference carries the owner's UID
IsControlledBy(o, owner) ==
    HasController(o) /\ GetControllerOf(o).uid = owner.uid

(***************************************************************************)
(* strings.HasPrefix on names: a name is the sequence of its pieces.       *)
(***************************************************************************)
Chars(n) ==
    CASE n = "c1" -> <<"c", "1">>
      [] n = "c1-kubeconfig" -> <<"c", "1", "-kubeconfig">>
      [] n = "c10" -> <<"c", "1", "0">>
      [] n = "c10-kubeconfig" -> <<"c", "1", "0", "-kubeconfig">>
      [] n = "-aws" -> <<"-", "aws">>
      [] OTHER -> <<n>>

HasPrefix(s, prefix) ==
    LET a == Chars(s)
        b == Chars(prefix)
    IN Len(b) <= Len(a) /\ \A i \in 1..Len(b) : a[i] = b[i]

(***************************************************************************)
(* Provider components (objects of the store that are not graph objects). *)
(* plabel: value of the clusterctl.cluster.x-k8s.io/provider label, ""     *)
(* when the object does not carry it; clabel: whether the object carries   *)
(* the clusterctl.cluster.x-k8s.io label; replicas: of a Deployment.       *)
(***************************************************************************)
CompObj(kind, ns, name, plabel, clabel, replicas) ==
    [kind |-> kind, ns |-> ns, name |-> name, plabel |-> plabel,
     clabel |-> clabel, replicas |-> replicas]

NamespaceObj(name) == CompObj("Namespace", "", name, "", FALSE, 0)

(***************************************************************************)
(* The source stores a pivot starts from, built the way the fixtures of    *)
(* Test_objectsClient_Pivot build them (fakeclusterBuilder): every object  *)
(* that references an infrastructure object comes with that object, which  *)
(* has the name of the object that references it.                          *)
(***************************************************************************)
ClusterOwner(cluster) == {OwnerRef("Cluster", cluster, FALSE, "src")}

Infra(kind, name, fin) == Obj(kind, name, "", {}, NoRef, NoRef, fin, FALSE)

WithCluster(name, secretName, fin) ==
    { Obj("Cluster", name, "", {}, Ref("ProviderCluster", name), NoRef, fin, FALSE),
      Infra("ProviderCluster", name, fin),
      Obj("Secret", secretName, "", {}, NoRef, NoRef, fin, FALSE) }

WithMachineDeployment(cluster, name, fin) ==
    { Infra("ProviderMachineTemplate", name, fin),
      Obj("MachineDeployment", name, cluster,
          IF cluster = "" THEN {} ELSE ClusterOwner(cluster),
          Ref("ProviderMachineTemplate", name), NoRef, fin, FALSE) }

\* md = "": the MachineSet has its own template; otherwise it is controlled by
\* the MachineDeployment md and references template (NoRef in the fixtures)
WithMachineSet(cluster, md, name, template, fin) ==
    IF md = ""
    THEN { Infra("ProviderMachineTemplate", name, fin),
           Obj("MachineSet", name, cluster,
               IF cluster = "" THEN {} ELSE ClusterOwner(cluster),
               Ref("ProviderMachineTemplate", name), NoRef, fin, FALSE) }
    ELSE { Obj("MachineSet", name, cluster,
               {OwnerRef("MachineDeployment", md, TRUE, "src")},
               template, NoRef, fin, FALSE) }
         \cup (IF template = NoRef \/ template.name = md THEN {}
               ELSE {Infra("ProviderMachineTemplate", template.name, fin)})

WithMachine(cluster, ms, name, boot, fin, dts) ==
    { Infra("ProviderMachine", name, fin),
      Obj("Machine", name, cluster,
          IF ms # "" THEN {OwnerRef("MachineSet", ms, TRUE, "src")}
          ELSE IF cluster # "" THEN ClusterOwner(cluster) ELSE {},
          Ref("ProviderMachine", name),
          IF boot THEN Ref("BootstrapConfig", name) ELSE NoRef, fin, dts) }
    \cup (IF boot THEN {Infra("BootstrapConfig", name, fin)} ELSE {})

Params ==
    { p \in [cl : BOOLEAN, md : {"none", "cluster", "alone"},
             msd : {"none", "noref", "same", "own"},
             m1 : {"none", "live", "deleting"},
             ms : {"none", "cluster", "alone"},
             m2 : {"none", "set", "cluster", "alone"},
             fin : BOOLEAN] :
        /\ (p.md = "cluster" \/ p.ms = "cluster" \/ p.m2 = "cluster") => p.cl
        /\ p.msd # "none" => p.md # "none"
        /\ p.m1 # "none" => p.msd # "none"
        /\ p.m2 = "set" => p.ms # "none" }

SourceObjects(p) ==
    LET cOf(how) == IF how = "cluster" THEN "c1" ELSE ""
    IN (IF p.cl THEN WithCluster("c1", "c1-kubeconfig", p.fin) ELSE {})
       \cup (IF p.md # "none" THEN WithMachineDeployment(cOf(p.md), "d1", p.fin) ELSE {})
       \cup (IF p.msd # "none"
             THEN WithMachineSet(cOf(p.md), "d1", "s1",
                      CASE p.msd = "noref" -> NoRef
                        [] p.msd = "same" -> Ref("ProviderMachineTemplate", "d1")
                        [] OTHER -> Ref("ProviderMachineTemplate", "s1"),
                      p.fin)
             ELSE {})
       \cup (IF p.m1 # "none"
             THEN WithMachine(cOf(p.md), "s1", "m1", FALSE, p.fin, p.m1 = "deleting")
             ELSE {})
       \cup (IF p.ms # "none" THEN WithMachineSet(cOf(p.ms), "", "s2", NoRef, p.fin) ELSE {})
       \cup (IF p.m2 # "none"
             THEN WithMachine(IF p.m2 = "set" THEN cOf(p.ms) ELSE cOf(p.m2),
                              IF p.m2 = "set" THEN "s2" ELSE "",
                              "m2", TRUE, p.fin, FALSE)
             ELSE {})

SourceStores == {SourceObjects(p) : p \in Params}


(***************************************************************************)
(* The object store client (external): Create, Update, Delete.             *)
(***************************************************************************)
\* Create: AlreadyExists when the key is taken; a new object cannot have a
\* resource version; the store assigns the UID and the resource version
CanCreate(S, o) == ~Has(S, Ident(o)) /\ o.rv = ""

StoreCreate(S, o, side) ==
    S \cup {[o EXCEPT !.rv = "1", !.uid = UID(side, o.kind, o.name)]}

\* Update: replaces the stored object with the same key
StoreUpdate(S, o) == {x \in S : Ident(x) # Ident(o)} \cup {o}

\* Delete: an object that holds finalizers is only marked as being deleted
StoreDelete(S, id) ==
    IF ~Has(S, id) THEN S
    ELSE LET cur == Lookup(S, id)
         IN IF cur.fin THEN StoreUpdate(S, [cur EXCEPT !.dts = TRUE])
            ELSE S \ {cur}

(***************************************************************************)
(* sourceClient: the lists of the objects to move.                         *)
(***************************************************************************)
GetClusters(S) == SortByName(OfKind(S, "Cluster"))

GetClusterSecrets(S, cluster) ==
    SortByName({s \in OfKind(S, "Secret") :
                  s.ns = cluster.ns /\ HasPrefix(s.name, cluster.name)})

OwnedByCluster(S, kind, cluster) ==
    {o \in OfKind(S, kind) :
        /\ o.label = cluster.name
        /\ o.ns = cluster.ns
        /\ \E r \in o.owners : r.kind = cluster.kind /\ r.name = cluster.name}

GetMachineDeployments(S) == SortByName(OfKind(S, "MachineDeployment"))

GetMachineDeploymentsForCluster(S, cluster) ==
    SortByName(OwnedByCluster(S, "MachineDeployment", cluster))

GetMachineSets(S) == SortByName(OfKind(S, "MachineSet"))

GetMachineSetsForCluster(S, cluster) ==
    SortByName(OwnedByCluster(S, "MachineSet", cluster))

GetMachineSetsForMachineDeployment(S, md) ==
    SortByName({ms \in OfKind(S, "MachineSet") :
                  ms.ns = md.ns /\ IsControlledBy(ms, md)})

GetMachines(S) == SortByName(OfKind(S, "Machine"))

GetMachinesForCluster(S, cluster) ==
    SortByName({m \in OfKind(S, "Machine") :
                  m.label = cluster.name /\ m.ns = cluster.ns})

GetMachinesForMachineSet(S, ms) ==
    SortByName({m \in OfKind(S, "Machine") :
                  m.ns = ms.ns /\ IsControlledBy(m, ms)})

(***************************************************************************)
(* The move sequence.  A call still to make is [op, arg]; each function    *)
(* below gives the calls its Go namesake makes, in order.  The lists are   *)
(* read from the source when their turn comes, not before.                 *)
(***************************************************************************)
Call(op, arg) == [op |-> op, arg |-> arg]

\* what is submitted to the target: no resource version, no owner reference
Cleared(o) == [o EXCEPT !.rv = "", !.owners = {}]

\* a move that deletes from the source before it creates in the target
moveUnstructuredDeleteFirst(u) ==
    << Call("ForceDeleteUnstructuredObject", u),
       Call("CreateUnstructuredObject", Cleared(u)) >>

moveUnstructured(u) ==
    << Call("CreateUnstructuredObject", Cleared(u)),
       Call("ForceDeleteUnstructuredObject", u) >>

moveReference(ref, namespace) ==
    << Call("GetUnstructuredObject",
            [kind |-> ref.kind, ns |-> namespace, name |-> ref.name]) >>

\* a move that makes the Cluster of the source the owner of the Secret
moveSecretOwnedBySource(secret, toCluster) ==
    << Call("CreateSecret",
            [secret EXCEPT !.rv = "",
                           !.owners = {OwnerRef("Cluster", toCluster.name, FALSE, "src")}]),
       Call("ForceDeleteSecret", secret) >>

moveSecret(secret, toCluster) ==
    << Call("CreateSecret",
            [secret EXCEPT !.rv = "",
                           !.owners = {[kind |-> "Cluster", name |-> toCluster.name,
                                        controller |-> FALSE, uid |-> toCluster.uid]}]),
       Call("ForceDeleteSecret", secret) >>

\* a move that deletes the Machine before the wait for its node reference
moveMachineDeleteBeforeReady(m) ==
    (IF m.boot # NoRef THEN moveReference(m.boot, m.ns) ELSE <<>>)
    \o moveReference(m.infra, m.ns)
    \o << Call("CreateMachines", Cleared(m)),
          Call("ForceDeleteMachine", m),
          Call("WaitForMachineReady", m) >>

moveMachine(m) ==
    (IF m.boot # NoRef THEN moveReference(m.boot, m.ns) ELSE <<>>)
    \o moveReference(m.infra, m.ns)
    \o << Call("CreateMachines", Cleared(m)),
          Call("WaitForMachineReady", m),
          Call("ForceDeleteMachine", m) >>

\* a loop that moves every Machine of the list
RECURSIVE moveMachinesAll(_)
moveMachinesAll(machines) ==
    IF machines = <<>> THEN <<>>
    ELSE moveMachine(Head(machines)) \o moveMachinesAll(Tail(machines))

RECURSIVE moveMachines(_)
moveMachines(machines) ==
    IF machines = <<>> THEN <<>>
    ELSE (IF Head(machines).dts THEN <<>> ELSE moveMachine(Head(machines)))
         \o moveMachines(Tail(machines))

\* a move of the MachineSet itself before the move of its Machines
moveMachineSetFirst(ms) ==
    (IF ~HasController(ms) THEN moveReference(ms.infra, ms.ns) ELSE <<>>)
    \o << Call("CreateMachineSets", Cleared(ms)),
          Call("ForceDeleteMachineSet", ms),
          Call("GetMachinesForMachineSet", ms) >>

moveMachineSet(ms) ==
    << Call("GetMachinesForMachineSet", ms) >>
    \o (IF ~HasController(ms) THEN moveReference(ms.infra, ms.ns) ELSE <<>>)
    \o << Call("CreateMachineSets", Cleared(ms)),
          Call("ForceDeleteMachineSet", ms) >>

RECURSIVE moveMachineSets(_)
moveMachineSets(machineSets) ==
    IF machineSets = <<>> THEN <<>>
    ELSE moveMachineSet(Head(machineSets)) \o moveMachineSets(Tail(machineSets))

moveMachineDeployment(md) ==
    << Call("GetMachineSetsForMachineDeployment", md) >>
    \o moveReference(md.infra, md.ns)
    \o << Call("CreateMachineDeployments", Cleared(md)),
          Call("ForceDeleteMachineDeployment", md) >>

RECURSIVE moveMachineDeployments(_)
moveMachineDeployments(mds) ==
    IF mds = <<>> THEN <<>>
    ELSE moveMachineDeployment(Head(mds)) \o moveMachineDeployments(Tail(mds))

moveCluster(cluster) ==
    << Call("EnsureNamespace", cluster.ns),
       Call("CreateCluster", [cluster EXCEPT !.rv = ""]) >>
    \o (IF cluster.infra # NoRef THEN moveReference(cluster.infra, cluster.ns) ELSE <<>>)
    \o << Call("moveSecrets", cluster),
          Call("GetMachineDeploymentsForCluster", cluster),
          Call("GetMachineSetsForCluster", cluster),
          Call("GetMachinesForCluster", cluster),
          Call("ForceDeleteCluster", cluster) >>

RECURSIVE moveClusters(_)
moveClusters(clusters) ==
    IF clusters = <<>> THEN <<>>
    ELSE moveCluster(Head(clusters)) \o moveClusters(Tail(clusters))

\* objectsClient.Pivot
\* the calls in another order: the resources are waited for after the
\* clusters were moved
PivotCallsWaitLast ==
    << Call("GetClusters", ""),
       Call("WaitForClusterV1alpha2Ready", "src"),
       Call("WaitForClusterV1alpha2Ready", "tgt"),
       Call("GetMachineDeployments", ""),
       Call("GetMachineSets", ""),
       Call("GetMachines", "") >>

PivotCalls ==
    << Call("WaitForClusterV1alpha2Ready", "src"),
       Call("WaitForClusterV1alpha2Ready", "tgt"),
       Call("GetClusters", ""),
       Call("GetMachineDeployments", ""),
       Call("GetMachineSets", ""),
       Call("GetMachines", "") >>


(***************************************************************************)
(* objectsClient.Pivot, one store call at a time.                          *)
(***************************************************************************)
Top(op) == pc = "running" /\ stack # <<>> /\ Head(stack).op = op

Arg == Head(stack).arg

\* the call on top returned without error: go on with rest
Return(rest) ==
    /\ stack' = rest
    /\ pc' = IF rest = <<>> THEN "done" ELSE "running"
    /\ hist' = IF rest = <<>> THEN Append(hist, "ok") ELSE hist
    /\ UNCHANGED <<faults, objs0, orig, otherVars>>

\* the call on top returned an error: every caller returns it at once
Fail(why) ==
    /\ stack' = <<>>
    /\ pc' = "failed"
    /\ hist' = Append(hist, why)
    /\ UNCHANGED <<faults, objs0, orig, otherVars>>

\* objectsClient.Pivot is called (again, after a call that failed)
Pivot ==
    /\ pc \in {"idle", "failed"}
    /\ Len(hist) < MaxRuns
    /\ pc' = "running"
    /\ stack' = PivotCalls
    /\ objs0' = objs
    /\ orig' = IF pc = "idle" THEN objs.src ELSE orig
    /\ UNCHANGED <<hist, faults, storeVars, otherVars>>

\* a store error after which the writes of the run are undone
StoreErrorUndone ==
    /\ pc = "running" /\ stack # <<>>
    /\ Head(stack).op \notin {"WaitForClusterV1alpha2Ready", "WaitForMachineReady"}
    /\ faults < MaxFaults
    /\ faults' = faults + 1
    /\ stack' = <<>>
    /\ pc' = "failed"
    /\ hist' = Append(hist, "store")
    /\ objs' = objs0
    /\ UNCHANGED <<objs0, orig, comp, prov, otherVars>>

\* the store call on top fails (transport, permission, timeout)
StoreError ==
    /\ pc = "running" /\ stack # <<>>
    /\ Head(stack).op \notin {"WaitForClusterV1alpha2Ready", "WaitForMachineReady"}
    /\ faults < MaxFaults
    /\ faults' = faults + 1
    /\ stack' = <<>>
    /\ pc' = "failed"
    /\ hist' = Append(hist, "store")
    /\ UNCHANGED <<objs0, orig, storeVars, otherVars>>

\* the poll ends when the Cluster resources can be listed on the cluster
\* Arg, or with an error when the deadline passes (or no client is made)
\* before they can
WaitForClusterV1alpha2Ready ==
    /\ Top("WaitForClusterV1alpha2Ready")
    /\ \/ Return(Tail(stack))
       \/ Fail("notready")
    /\ UNCHANGED storeVars

GetClustersStep ==
    /\ Top("GetClusters")
    /\ Return(moveClusters(GetClusters(objs.src)) \o Tail(stack))
    /\ UNCHANGED storeVars

EnsureNamespace ==
    /\ Top("EnsureNamespace")
    /\ comp' = [comp EXCEPT !.tgt =
                   IF \E n \in @ : n.kind = "Namespace" /\ n.name = Arg THEN @
                   ELSE @ \cup {NamespaceObj(Arg)}]
    /\ Return(Tail(stack))
    /\ UNCHANGED <<objs, prov>>

\* cs.Create on the target
TargetCreate(op) ==
    /\ Top(op)
    /\ IF CanCreate(objs.tgt, Arg)
       THEN /\ objs' = [objs EXCEPT !.tgt = StoreCreate(@, Arg, "tgt")]
            /\ Return(Tail(stack))
       ELSE /\ UNCHANGED objs
            /\ Fail("state")
    /\ UNCHANGED <<comp, prov>>

CreateCluster == TargetCreate("CreateCluster")

CreateUnstructuredObject == TargetCreate("CreateUnstructuredObject")

CreateSecret == TargetCreate("CreateSecret")

CreateMachineDeployments == TargetCreate("CreateMachineDeployments")

CreateMachineSets == TargetCreate("CreateMachineSets")

CreateMachines == TargetCreate("CreateMachines")

\* the poll for the node reference of the Machine created in the target:
\* it ends when a Get shows the reference, or with an error when the
\* timeout passes before one does (the errors of Get are polled over)
WaitForMachineReady ==
    /\ Top("WaitForMachineReady")
    /\ \/ /\ stack' = Tail(stack)
          /\ pc' = IF Tail(stack) = <<>> THEN "done" ELSE "running"
          /\ hist' = IF Tail(stack) = <<>> THEN Append(hist, "ok") ELSE hist
          /\ cm' = [cm EXCEPT !.ready = @ \cup {Ident(Arg)}]
          /\ UNCHANGED <<faults, objs0, orig, installQueue, inst, piv, del,
                         crds, cli, crt>>
       \/ Fail("timeout")
    /\ UNCHANGED storeVars

GetUnstructuredObject ==
    /\ Top("GetUnstructuredObject")
    /\ IF Has(objs.src, Arg)
       THEN Return(moveUnstructured(Lookup(objs.src, Arg)) \o Tail(stack))
       ELSE Fail("state")
    /\ UNCHANGED storeVars

RECURSIVE moveSecretList(_, _)
moveSecretList(secrets, toCluster) ==
    IF secrets = <<>> THEN <<>>
    ELSE moveSecret(Head(secrets), toCluster) \o moveSecretList(Tail(secrets), toCluster)

moveSecrets ==
    /\ Top("moveSecrets")
    /\ IF Has(objs.tgt, Ident(Arg))
       THEN Return(moveSecretList(GetClusterSecrets(objs.src, Arg),
                                  Lookup(objs.tgt, Ident(Arg))) \o Tail(stack))
       ELSE Fail("state")
    /\ UNCHANGED storeVars

GetMachineDeploymentsForClusterStep ==
    /\ Top("GetMachineDeploymentsForCluster")
    /\ Return(moveMachineDeployments(GetMachineDeploymentsForCluster(objs.src, Arg))
              \o Tail(stack))
    /\ UNCHANGED storeVars

GetMachineSetsForClusterStep ==
    /\ Top("GetMachineSetsForCluster")
    /\ Return(moveMachineSets(GetMachineSetsForCluster(objs.src, Arg)) \o Tail(stack))
    /\ UNCHANGED storeVars

GetMachinesForClusterStep ==
    /\ Top("GetMachinesForCluster")
    /\ Return(moveMachines(GetMachinesForCluster(objs.src, Arg)) \o Tail(stack))
    /\ UNCHANGED storeVars

GetMachineSetsForMachineDeploymentStep ==
    /\ Top("GetMachineSetsForMachineDeployment")
    /\ Return(moveMachineSets(GetMachineSetsForMachineDeployment(objs.src, Arg))
              \o Tail(stack))
    /\ UNCHANGED storeVars

GetMachinesForMachineSetStep ==
    /\ Top("GetMachinesForMachineSet")
    /\ Return(moveMachines(GetMachinesForMachineSet(objs.src, Arg)) \o Tail(stack))
    /\ UNCHANGED storeVars

GetMachineDeploymentsStep ==
    /\ Top("GetMachineDeployments")
    /\ Return(moveMachineDeployments(GetMachineDeployments(objs.src)) \o Tail(stack))
    /\ UNCHANGED storeVars

GetMachineSetsStep ==
    /\ Top("GetMachineSets")
    /\ Return(moveMachineSets(GetMachineSets(objs.src)) \o Tail(stack))
    /\ UNCHANGED storeVars

GetMachinesStep ==
    /\ Top("GetMachines")
    /\ Return(moveMachines(GetMachines(objs.src)) \o Tail(stack))
    /\ UNCHANGED storeVars

\* ForceDeleteCluster / MachineDeployment / MachineSet / Machine: Get (an
\* error when the object is not found), clear the finalizers, Update; the
\* Delete follows
ForceDelete(op) ==
    /\ Top(op)
    /\ IF Has(objs.src, Ident(Arg))
       THEN /\ objs' = [objs EXCEPT !.src =
                          StoreUpdate(@, [Lookup(@, Ident(Arg)) EXCEPT !.fin = FALSE])]
            /\ Return(<<Call("Delete", Ident(Arg))>> \o Tail(stack))
       ELSE /\ UNCHANGED objs
            /\ Fail("state")
    /\ UNCHANGED <<comp, prov>>

ForceDeleteCluster == ForceDelete("ForceDeleteCluster")

ForceDeleteMachineDeployment == ForceDelete("ForceDeleteMachineDeployment")

ForceDeleteMachineSet == ForceDelete("ForceDeleteMachineSet")

ForceDeleteMachine == ForceDelete("ForceDeleteMachine")

\* as ForceDelete, but an object that is not found is no error
ForceDeleteUnstructuredObject ==
    /\ Top("ForceDeleteUnstructuredObject")
    /\ IF Has(objs.src, Ident(Arg))
       THEN /\ objs' = [objs EXCEPT !.src =
                          StoreUpdate(@, [Lookup(@, Ident(Arg)) EXCEPT !.fin = FALSE])]
            /\ Return(<<Call("Delete", Ident(Arg))>> \o Tail(stack))
       ELSE /\ UNCHANGED objs
            /\ Return(Tail(stack))
    /\ UNCHANGED <<comp, prov>>

\* Get (not found is no error) and Delete: the finalizers are not cleared
ForceDeleteSecret ==
    /\ Top("ForceDeleteSecret")
    /\ objs' = [objs EXCEPT !.src = StoreDelete(@, Ident(Arg))]
    /\ Return(Tail(stack))
    /\ UNCHANGED <<comp, prov>>

\* cs.Delete on the source, the last call of a ForceDelete
SourceDelete ==
    /\ Top("Delete")
    /\ objs' = [objs EXCEPT !.src = StoreDelete(@, Arg)]
    /\ Return(Tail(stack))
    /\ UNCHANGED <<comp, prov>>

MoverStep ==
    \/ StoreError
    \/ WaitForClusterV1alpha2Ready
    \/ GetClustersStep
    \/ EnsureNamespace
    \/ CreateCluster
    \/ CreateUnstructuredObject
    \/ CreateSecret
    \/ CreateMachineDeployments
    \/ CreateMachineSets
    \/ CreateMachines
    \/ WaitForMachineReady
    \/ GetUnstructuredObject
    \/ moveSecrets
    \/ GetMachineDeploymentsForClusterStep
    \/ GetMachineSetsForClusterStep
    \/ GetMachinesForClusterStep
    \/ GetMachineSetsForMachineDeploymentStep
    \/ GetMachinesForMachineSetStep
    \/ GetMachineDeploymentsStep
    \/ GetMachineSetsStep
    \/ GetMachinesStep
    \/ ForceDeleteCluster
    \/ ForceDeleteMachineDeployment
    \/ ForceDeleteMachineSet
    \/ ForceDeleteMachine
    \/ ForceDeleteUnstructuredObject
    \/ ForceDeleteSecret
    \/ SourceDelete

(***************************************************************************)
(* SpecMover: objectsClient.Pivot called on a source store and an empty    *)
(* target store, and called again after a call that failed.                *)
(***************************************************************************)
NoStore == [src |-> {}, tgt |-> {}]

NoBundle == [name |-> "", ns |-> "", version |-> "", watched |-> ""]

\* lastAdd: the last Add call of the current installer and whether it
\* returned an error; forced: whether an Add of the current installer was
\* forced; result: how Install ended ("" not called, "ok", "store",
\* "state"); done: the bundles Install installed; second: whether this is the installer created after the first;
\* result2: how the second Install of the installer ended; comp0, prov0:
\* the store before the last Install; updates: the namespaces the last
\* Install sent an Update for;
\* prevQueue: the queue of the first installer, when its Install aborted
\* and none of its Add calls was forced; prevResult, prevDone: result and
\* done of the first installer
NoInst ==
    [lastAdd |-> [b |-> NoBundle, force |-> FALSE, err |-> ""],
     forced |-> FALSE, result |-> "", done |-> 0, result2 |-> "",
     comp0 |-> {}, prov0 |-> {}, updates |-> {}, second |-> FALSE,
     prevQueue |-> <<>>, prevResult |-> "", prevDone |-> 0]

\* phase: "idle", "install", "scale", "move", "moving", "delete", "done",
\* "failed"; providers: the list moverService.Pivot works on; i: the
\* provider the current loop is at; err: the step that returned the error;
\* deleted: the Delete calls made, [provider, forceDeleteNamespace,
\* forceDeleteCRD]
NoPiv == [phase |-> "idle", providers |-> <<>>, i |-> 0, err |-> "", deleted |-> <<>>]

\* provider, forceDeleteNamespace, forceDeleteCRD: the arguments of the
\* call; comp0, prov0: the store before the call; comp1: the components
\* when the call lists the resources to delete; err: "" when the call
\* returned nil, "scale" when ScaleDownControllers failed
NoDel ==
    [called |-> FALSE, provider |-> NoBundle, forceDeleteNamespace |-> FALSE,
     forceDeleteCRD |-> FALSE, comp0 |-> {}, prov0 |-> {}, comp1 |-> {},
     err |-> ""]

\* the objects of manifest/clusterctl-api.yaml, in the order of the file
Manifest == <<"providers.crd", "providers.rbac">>

Registry == {Manifest[k] : k \in 1..Len(Manifest)}

\* EnsureMetadata that goes on after an object that is already there, and
\* answers (false, nil) at the end of the loop
EnsureMetadataIgnoringExists(R, fault) ==
    [crds |-> R \cup {Manifest[k] : k \in 1..(IF fault > 0 THEN fault - 1
                                              ELSE Len(Manifest))},
     hasCRD |-> FALSE,
     err |-> IF fault > 0 THEN "store" ELSE ""]

\* metadataClient.EnsureMetadata on a store whose registry objects are R;
\* fault: the Create call that fails with a store error, 0 when none does.
\* The objects are created in order; the first Create that answers
\* AlreadyExists ends the call with (true, nil), a Create that fails ends it
\* with the error, the end of the loop with (false, nil).
EnsureMetadata(R, fault) ==
    LET exists == {k \in 1..Len(Manifest) : Manifest[k] \in R}
        first == IF exists = {} THEN Len(Manifest) + 1
                 ELSE CHOOSE k \in exists : \A j \in exists : k <= j
        stop == IF fault > 0 /\ fault <= first THEN fault ELSE first
    IN [crds |-> R \cup {Manifest[k] : k \in 1..(stop - 1)},
        hasCRD |-> stop # fault /\ stop <= Len(Manifest),
        err |-> IF stop = fault THEN "store" ELSE ""]

\* op: the operation called, "" when none was; phase: "idle", "mover" (Pivot
\* is inside moverService.Pivot), "returned"; err: the step that failed, ""
\* when none did; ret: what the operation returned, "nil" or "error"
NoArgs ==
    [coreProvider |-> <<>>, bootstrapProviders |-> <<>>,
     infrastructureProviders |-> <<>>, targetNameSpace |-> "",
     watchingNamespace |-> "", force |-> FALSE]

\* op: the operation called last, "" when none was; phase: "idle", "mover"
\* (Pivot is inside moverService.Pivot), "returned"; err: the step that
\* failed, "" when none did; ret: what the operation returned, "nil" or
\* "error"; rets: what each EnsureMetadata call on the cluster returned,
\* "new" for (false, nil), "exists" for (true, nil), "error"; reg0: the
\* registry objects before the last of these calls; crds0, comp0, prov0:
\* the store before the last call of op; args, got, firstRun: the
\* arguments and the results of Init; queue: the queue of its installer
\* when it returned; installed: whether it called Install; again: whether
\* the call is the second; prevOp, prevErr: op and err of the call before
NoCli ==
    [op |-> "", phase |-> "idle", err |-> "", ret |-> "", rets |-> <<>>,
     reg0 |-> {}, crds0 |-> {}, comp0 |-> {}, prov0 |-> {}, args |-> NoArgs, got |-> <<>>,
     firstRun |-> FALSE, queue |-> <<>>, installed |-> FALSE, again |-> FALSE,
     prevOp |-> "", prevErr |-> ""]

\* phase: "idle", "running", "done", "failed"; objs: the objects of the
\* bundle in the order of its yaml; todo: the resources still to write;
\* writes: the resources written so far, in order; comp0: the components
\* of the cluster before the call; verbs: for each resource written, the
\* call made and the resource version submitted; rvs: the resource
\* versions of the objects written by Create so far; runs: the calls made
NoCrt ==
    [phase |-> "idle", objs |-> <<>>, todo |-> <<>>, writes |-> <<>>,
     comp0 |-> {}, verbs |-> <<>>, rvs |-> {}, runs |-> 0]

\* phase: "idle", "running" (the goroutines are started), "returned";
\* machines: the batch; g: where the goroutine of each Machine is, "create",
\* "wait", "record" (it calls errOnce.Do), "done"; errs: the error each
\* goroutine met, "" when none; once: whether errOnce has run; gerr: the
\* shared error, <<>> for nil, else the goroutine and its error; writes:
\* how many times gerr was assigned; order: the goroutines in the order
\* they called errOnce.Do; late: whether a create succeeded after gerr
\* was assigned; ret: what the call returned; ready: the Machines whose
\* WaitForMachineReady saw a node reference
NoCm ==
    [phase |-> "idle", machines |-> <<>>, g |-> <<>>, errs |-> <<>>,
     once |-> FALSE, gerr |-> <<>>, writes |-> 0, order |-> <<>>,
     late |-> FALSE, ret |-> <<>>, ready |-> {}]

InitMover ==
    /\ objs \in {[src |-> S, tgt |-> {}] : S \in SourceStores}
    /\ comp = NoStore
    /\ prov = NoStore
    /\ pc = "idle"
    /\ stack = <<>>
    /\ hist = <<>>
    /\ faults = 0
    /\ objs0 = NoStore
    /\ orig = {}
    /\ installQueue = <<>>
    /\ inst = NoInst
    /\ piv = NoPiv
    /\ del = NoDel
    /\ crds = [src |-> Registry, tgt |-> Registry]
    /\ cli = NoCli
    /\ crt = NoCrt
    /\ cm = NoCm

NextMover == Pivot \/ MoverStep

SpecMover == InitMover /\ [][NextMover]_vars


(***************************************************************************)
(* Properties of objectsClient.Pivot.                                      *)
(***************************************************************************)
\* the objects of S that a move has to carry over: the Clusters,
\* MachineDeployments and MachineSets, the Machines that are not being
\* deleted, the objects these reference, and the Secrets of the Clusters
Carried(S) ==
    LET graph == {o \in S : \/ o.kind \in {"Cluster", "MachineDeployment", "MachineSet"}
                            \/ o.kind = "Machine" /\ ~o.dts}
    IN graph
       \cup {o \in S : \E g \in graph :
                \/ g.infra.kind = o.kind /\ g.infra.name = o.name
                \/ g.boot.kind = o.kind /\ g.boot.name = o.name}
       \cup {o \in S : o.kind = "Secret" /\
                \E c \in graph : c.kind = "Cluster" /\ HasPrefix(o.name, c.name)}

Moved(o) == Has(objs.tgt, Ident(o)) /\ ~Has(objs.src, Ident(o))

\* C1: when objectsClient.Pivot has returned nil, every Cluster,
\* MachineDeployment, MachineSet, Machine without deletion timestamp,
\* referenced infrastructure object and cluster Secret of the source is in
\* the target and is no longer found in the source
C1_PivotMovesEverything ==
    (pc = "done" /\ Len(hist) = 1) => \A o \in Carried(orig) : Moved(o)

\* C2: in every state of a Pivot, the states left by an aborted Pivot
\* included, every object the source held is in at least one of the stores
C2_NeverInNeitherStore ==
    \A o \in orig : Has(objs.src, Ident(o)) \/ Has(objs.tgt, Ident(o))

\* a Pivot aborted half way: something is moved, something is still to move
C2_AbortedHalfWay ==
    /\ pc = "failed"
    /\ \E o \in Carried(orig) : Moved(o)
    /\ \E o \in Carried(orig) : Has(objs.src, Ident(o)) /\ ~Has(objs.tgt, Ident(o))

\* C12: when the Cluster resources cannot be listed on the source or on the
\* target before the deadline, objectsClient.Pivot returns the error and
\* has written nothing: no step of a run writes to a store while a wait is
\* still to be made, and the run that ends that way leaves the graph
\* objects as they were when it started
C12_NotReadyWritesNothing ==
    [][ /\ (pc = "running"
            /\ \E k \in 1..Len(stack) :
                   stack[k].op = "WaitForClusterV1alpha2Ready")
               => UNCHANGED storeVars
        /\ (Len(hist') > Len(hist) /\ hist'[Len(hist')] = "notready")
               => /\ pc' = "failed"
                  /\ objs' = objs0
                  /\ UNCHANGED storeVars
      ]_vars

\* a second run stopped at a wait, the first one having moved some objects
C12_StoppedAtWait ==
    /\ pc = "failed"
    /\ Len(hist) = 2 /\ hist[2] = "notready"
    /\ objs.src # {} /\ objs.tgt # {}

\* C9: a Pivot called again after a Pivot that a store error aborted half
\* way, and that meets no store error itself, returns nil and leaves every
\* object in the target and none in the source
C9_RerunCompletes ==
    ( /\ pc \in {"done", "failed"}
      /\ Len(hist) >= 2
      /\ hist[Len(hist) - 1] = "store"
      /\ hist[Len(hist)] \notin {"store", "notready", "timeout"}
      /\ objs0 # [src |-> orig, tgt |-> {}] )
    => /\ hist[Len(hist)] = "ok"
       /\ \A o \in Carried(orig) : Moved(o)


(***************************************************************************)
(* Providers: the bundles of the repository (repository.Components), the   *)
(* Provider records of the registry (metadataClient) and the components    *)
(* of a provider in the store (providerComponents).                        *)
(***************************************************************************)
Bundle(name, ns, version, watched) ==
    [name |-> name, ns |-> ns, version |-> version, watched |-> watched]

\* the bundles the installers are given
Bundles ==
    { Bundle("aws", "ns1", "v1", "ns1"),
      Bundle("aws", "ns2", "v2", "ns2"),
      Bundle("core", "ns1", "v1", "") }

\* components.Metadata: the Provider record of a bundle (it carries the
\* provider label, as every record the program writes)
Metadata(b) ==
    [ns |-> b.ns, name |-> b.name, version |-> b.version,
     watched |-> b.watched, rv |-> ""]

\* components.Objs: the Namespace, a controller Deployment in it, a
\* CustomResourceDefinition and a ClusterRole, all with both labels
BundleObjs(b) ==
    { CompObj("Namespace", "", b.ns, b.name, TRUE, 0),
      CompObj("Deployment", b.ns, b.name, b.name, TRUE, 1),
      CompObj("CustomResourceDefinition", "", b.name, b.name, TRUE, 0),
      CompObj("ClusterRole", "", b.name, b.name, TRUE, 0) }

SameKey(a, b) == a.ns = b.ns /\ a.name = b.name

\* metadataClient.list with the Name option
list(P, name) == {i \in P : name = "" \/ i.name = name}

\* metadataClient.Validate: "" for nil, else the check that failed
Validate(P, m) ==
    LET instances == list(P, m.name)
    IN IF instances = {} THEN ""
       ELSE IF \E i \in instances : i.ns = m.ns THEN "namespace"
       ELSE IF ~(\E i \in instances : i.version = m.version) THEN "version"
       ELSE IF m.watched = "" THEN "watchAll"
       ELSE IF \E i \in instances : i.watched = "" \/ m.watched = i.watched
            THEN "watched"
       ELSE ""

\* metadataClient.Create: Create when there is no record with the key, else
\* Update with the copy taken before the resource version was filled in,
\* which the store refuses unless the versions agree
MetadataCreateOk(P, m) ==
    \A i \in P : SameKey(i, m) => i.rv = m.rv

MetadataCreate(P, m) ==
    {i \in P : ~SameKey(i, m)} \cup {[m EXCEPT !.rv = "1"]}

\* providerComponents.Create: every object of the bundle is created when it
\* is not in the store and replaced when it is
ComponentsCreate(C, b) ==
    {o \in C : ~Has(BundleObjs(b), Ident(o))} \cup BundleObjs(b)


(***************************************************************************)
(* installerService: Add and Install.                                      *)
(***************************************************************************)
\* where a store call of Install fails: in providerComponents.Create or in
\* providerMetadata.Create of the bundle at, or nowhere (at = 0)
InstallFaults(q) ==
    {[at |-> 0, in |-> ""]}
    \cup [at : 1..Len(q), in : {"components", "metadata"}]

\* a loop that goes on with the next bundle after one that failed
RECURSIVE InstallLoopSkipping(_, _, _, _, _)
InstallLoopSkipping(C, P, q, i, fault) ==
    IF i > Len(q) THEN [comp |-> C, prov |-> P, err |-> "", done |-> i - 1]
    ELSE IF fault.at = i
    THEN [InstallLoopSkipping(C, P, q, i + 1, fault) EXCEPT
            !.err = "store", !.done = i - 1]
    ELSE InstallLoopSkipping(ComponentsCreate(C, q[i]),
                             MetadataCreate(P, Metadata(q[i])), q, i + 1, fault)

\* the loop of Install over the queue, from bundle i on
RECURSIVE InstallLoop(_, _, _, _, _)
InstallLoop(C, P, q, i, fault) ==
    IF i > Len(q) THEN [comp |-> C, prov |-> P, err |-> "", done |-> i - 1]
    ELSE IF fault.at = i /\ fault.in = "components"
    THEN [comp |-> C, prov |-> P, err |-> "store", done |-> i - 1]
    ELSE LET C1 == ComponentsCreate(C, q[i])
         IN IF fault.at = i /\ fault.in = "metadata"
            THEN [comp |-> C1, prov |-> P, err |-> "store", done |-> i - 1]
            ELSE IF ~MetadataCreateOk(P, Metadata(q[i]))
            THEN [comp |-> C1, prov |-> P, err |-> "state", done |-> i - 1]
            ELSE InstallLoop(C1, MetadataCreate(P, Metadata(q[i])), q, i + 1, fault)

\* the namespaces that host more than one provider
SharedNamespaces(P) ==
    {n \in {i.ns : i \in P} : Cardinality({i \in P : i.ns = n}) > 1}

\* the Namespace of each of them is read (an error when it is not found)
\* and loses its provider label
DetachOk(C, P) ==
    \A n \in SharedNamespaces(P) : \E o \in C : o.kind = "Namespace" /\ o.name = n

\* every shared namespace is updated, with or without the label
DetachUpdatesAll(C, P) == SharedNamespaces(P)

\* the namespaces Install sends an Update for: those of them that carry the
\* provider label
DetachUpdates(C, P) ==
    {n \in SharedNamespaces(P) :
        \E o \in C : o.kind = "Namespace" /\ o.name = n /\ o.plabel # ""}

Detach(C, P) ==
    { IF o.kind = "Namespace" /\ o.name \in DetachUpdates(C, P)
      THEN [o EXCEPT !.plabel = ""] ELSE o : o \in C }

\* clusterClient.ProviderInstaller: a new installer, after the first one
\* has run its Install
ProviderInstaller ==
    /\ ~inst.second
    /\ inst.result # ""
    /\ installQueue' = <<>>
    /\ inst' = [NoInst EXCEPT
                  !.second = TRUE,
                  !.prevQueue = IF inst.result \in {"store", "state"} /\ ~inst.forced
                                THEN installQueue ELSE <<>>,
                  !.prevResult = inst.result,
                  !.prevDone = inst.done]
    /\ UNCHANGED <<storeVars, moverVars, piv, del, clientVars>>

\* Add that does not look at force
installerServiceAddStrict(P, q, components, force) ==
    LET err == Validate(P, Metadata(components))
    IN IF err # ""
       THEN [queue |-> q, err |-> err]
       ELSE [queue |-> Append(q, components), err |-> ""]

\* installerService.Add on the queue q, the registry holding the records
\* P: the queue after the call and the error returned
installerServiceAdd(P, q, components, force) ==
    LET err == Validate(P, Metadata(components))
    IN IF err # "" /\ ~force
       THEN [queue |-> q, err |-> err]
       ELSE [queue |-> Append(q, components), err |-> ""]

Add ==
    /\ inst.result = ""
    /\ Len(installQueue) < MaxQueue
    /\ \E components \in Bundles, force \in BOOLEAN :
         LET r == installerServiceAdd(prov.src, installQueue, components, force)
         IN /\ installQueue' = r.queue
            /\ inst' = [inst EXCEPT
                          !.lastAdd = [b |-> components, force |-> force,
                                       err |-> r.err],
                          !.forced = @ \/ force]
    /\ UNCHANGED <<storeVars, moverVars, piv, del, clientVars>>

\* Install is called, and called once more on the same installer
Install ==
    /\ inst.result2 = ""
    /\ \E fault \in InstallFaults(installQueue) :
         LET r == InstallLoop(comp.src, prov.src, installQueue, 1, fault)
             ok == r.err = "" /\ DetachOk(r.comp, r.prov)
         IN /\ fault.at = 0 \/ (faults < MaxFaults /\ r.err = "store")
            /\ comp' = [comp EXCEPT !.src = IF ok THEN Detach(r.comp, r.prov) ELSE r.comp]
            /\ prov' = [prov EXCEPT !.src = r.prov]
            /\ faults' = IF fault.at = 0 THEN faults ELSE faults + 1
            /\ inst' = IF inst.result = ""
                       THEN [inst EXCEPT
                               !.result = IF ok THEN "ok"
                                          ELSE IF r.err = "" THEN "state" ELSE r.err,
                               !.done = r.done,
                               !.comp0 = comp.src, !.prov0 = prov.src,
                               !.updates = IF ok THEN DetachUpdates(r.comp, r.prov)
                                           ELSE {}]
                       ELSE [inst EXCEPT
                               !.result2 = IF ok THEN "ok"
                                           ELSE IF r.err = "" THEN "state" ELSE r.err,
                               !.comp0 = comp.src, !.prov0 = prov.src,
                               !.updates = IF ok THEN DetachUpdates(r.comp, r.prov)
                                           ELSE {}]
    /\ UNCHANGED <<objs, pc, stack, hist, objs0, orig, installQueue, piv,
                   del, clientVars>>

(***************************************************************************)
(* SpecInstaller: installers working on an empty management cluster.       *)
(***************************************************************************)
InitInstaller ==
    /\ objs = NoStore
    /\ comp = NoStore
    /\ prov = NoStore
    /\ pc = "idle"
    /\ stack = <<>>
    /\ hist = <<>>
    /\ faults = 0
    /\ objs0 = NoStore
    /\ orig = {}
    /\ installQueue = <<>>
    /\ inst = NoInst
    /\ piv = NoPiv
    /\ del = NoDel
    /\ crds = [src |-> Registry, tgt |-> Registry]
    /\ cli = NoCli
    /\ crt = NoCrt
    /\ cm = NoCm

NextInstaller == ProviderInstaller \/ Add \/ Install

SpecInstaller == InitInstaller /\ [][NextInstaller]_vars

\* the records Validate is asked about
Candidates ==
    [ns : {"ns1", "ns2", "ns3"}, name : {"aws", "core"}, version : {"v1", "v2"},
     watched : {"", "ns1", "ns2", "ns3"}, rv : {""}]

\* C3: Validate returns an error exactly when, among the records with the
\* name of the candidate, one has its namespace, or one has another version,
\* or the candidate watches every namespace and there is such a record, or
\* one watches the namespace the candidate watches
C3_ValidateIff ==
    \A m \in Candidates :
        LET same == {i \in prov.src : i.name = m.name}
        IN (Validate(prov.src, m) # "")
           <=> \/ \E i \in same : i.ns = m.ns
               \/ \E i \in same : i.version # m.version
               \/ m.watched = "" /\ same # {}
               \/ \E i \in same : i.watched = m.watched

\* C16: an Add that is not forced, of a bundle Validate rejects, returns an
\* error and leaves the queue as it was; a forced Add of such a bundle
\* returns nil and appends the bundle; an Add of a bundle Validate accepts
\* returns nil and appends the bundle, once, at the end of the queue
C16_AddQueues ==
    [][ (/\ inst'.lastAdd.b # NoBundle
         /\ inst'.result = "" /\ inst.result = ""
         /\ inst'.lastAdd # inst.lastAdd \/ installQueue' # installQueue)
        => LET a == inst'.lastAdd
               rejected == Validate(prov.src, Metadata(a.b)) # ""
           IN /\ (rejected /\ ~a.force) =>
                    a.err # "" /\ installQueue' = installQueue
              /\ (rejected /\ a.force) =>
                    a.err = "" /\ installQueue' = Append(installQueue, a.b)
              /\ ~rejected =>
                    a.err = "" /\ installQueue' = Append(installQueue, a.b)
      ]_vars

\* a forced Add of a bundle Validate rejects, after an Add that was accepted
C16_ForcedAdd ==
    /\ inst.result = ""
    /\ inst.lastAdd.force
    /\ Validate(prov.src, Metadata(inst.lastAdd.b)) # ""
    /\ Len(installQueue) = 2
    /\ installQueue[2] = inst.lastAdd.b

\* C17: Install drains the queue: after an Install that returned nil the
\* queue is empty, and an Install called again on the installer returns nil
\* and writes nothing, so that each bundle is installed once
C17_InstallDrainsQueue ==
    [][ /\ (inst'.result = "ok" /\ inst.result = "") => installQueue' = <<>>
        /\ (inst.result = "ok" /\ inst'.result2 # inst.result2) =>
              /\ inst'.result2 = "ok"
              /\ UNCHANGED <<comp, prov>>
      ]_vars

\* C37: after Add calls none of which was forced and an Install that returned
\* nil, on an empty cluster, the records with one name have one version,
\* none of them watches every namespace and no two of them watch the same
\* namespace
C37_RecordsValid ==
    (inst.result = "ok" /\ inst.result2 = "" /\ ~inst.second /\ ~inst.forced) =>
        \A i, j \in prov.src :
            (i.name = j.name /\ i # j) =>
                /\ i.version = j.version
                /\ i.watched # "" /\ j.watched # ""
                /\ i.watched # j.watched

\* C18: when the components or the record of a bundle of the queue cannot
\* be written, Install returns the error at once: the bundles before it
\* have their components and their record in the store, and neither the
\* record of the bundle nor anything of the bundles after it is written
C18_InstallStopsAtFailure ==
    (inst.result \in {"store", "state"} /\ inst.result2 = "") =>
        LET k == inst.done + 1
        IN /\ k <= Len(installQueue)
           /\ \A j \in 1..(k - 1) :
                /\ Idents(BundleObjs(installQueue[j])) \subseteq Idents(comp.src)
                /\ \E i \in prov.src : /\ SameKey(i, installQueue[j])
                                        /\ i.version = installQueue[j].version
           /\ \A i \in prov.src :
                i \in inst.prov0 \/ \E j \in 1..(k - 1) : SameKey(i, installQueue[j])
           /\ \A o \in comp.src :
                o \in inst.comp0
                \/ \E j \in 1..k : Has(BundleObjs(installQueue[j]), Ident(o))

\* the second bundle of the queue of an installer failed on a cluster where
\* providers were installed, and the first bundle was new to the cluster
C18_SecondBundleFailed ==
    /\ inst.result = "store" /\ inst.result2 = ""
    /\ inst.done = 1
    /\ Len(installQueue) = 2
    /\ inst.prov0 # {}
    /\ ~(\E i \in inst.prov0 : SameKey(i, installQueue[1]))

\* the Namespace object with the name n in the components C
NamespaceOf(C, n) == CHOOSE o \in C : o.kind = "Namespace" /\ o.name = n

\* C19: after an Install that returned nil, the Namespace of every
\* namespace that hosts more than one provider is without the provider
\* label; the Namespace of a namespace that hosts one provider has the label
\* the bundle gave it, or is as it was when no bundle of the queue is in it;
\* an Update is sent only for a Namespace that carried the label
C19_SharedNamespacesDetached ==
    (inst.result = "ok" /\ inst.result2 = "") =>
        /\ \A n \in SharedNamespaces(prov.src) :
              NamespaceOf(comp.src, n).plabel = ""
        /\ \A n \in {i.ns : i \in prov.src} \ SharedNamespaces(prov.src) :
              IF \E j \in 1..Len(installQueue) : installQueue[j].ns = n
              THEN \E j \in 1..Len(installQueue) :
                      /\ installQueue[j].ns = n
                      /\ NamespaceOf(comp.src, n).plabel = installQueue[j].name
              ELSE NamespaceOf(comp.src, n) = NamespaceOf(inst.comp0, n)
        /\ \A n \in inst.updates :
              \/ \E j \in 1..Len(installQueue) : installQueue[j].ns = n
              \/ NamespaceOf(inst.comp0, n).plabel # ""

\* an Install on a cluster where a namespace was detached before: the
\* namespace is left alone, the namespace of the bundle hosts one provider
C19_AlreadyDetached ==
    /\ inst.result = "ok" /\ inst.result2 = ""
    /\ installQueue # <<>>
    /\ SharedNamespaces(inst.prov0) # {}
    /\ inst.updates = {}
    /\ \E n \in {i.ns : i \in prov.src} \ SharedNamespaces(prov.src) :
          NamespaceOf(comp.src, n).plabel # ""

\* the second installer is given the Add calls of the first, whose Install
\* a store error aborted after it installed a bundle
Repeating ==
    /\ inst.second
    /\ inst.prevResult = "store"
    /\ inst.prevDone > 0
    /\ inst.prevQueue # <<>>
    /\ ~inst.forced
    /\ inst.lastAdd.b # NoBundle
    /\ Len(installQueue) <= Len(inst.prevQueue)
    /\ installQueue = SubSeq(inst.prevQueue, 1, Len(installQueue))
    /\ IF inst.lastAdd.err # ""
       THEN /\ Len(installQueue) < Len(inst.prevQueue)
            /\ inst.lastAdd.b = inst.prevQueue[Len(installQueue) + 1]
       ELSE /\ installQueue # <<>>
            /\ inst.lastAdd.b = installQueue[Len(installQueue)]

\* C10: after an Install that aborted with some bundles installed, the same
\* Add calls, not forced, return no error, and the Install that follows
\* returns no error and leaves the record of every bundle in the registry,
\* one for each namespace and name
C10_RepeatSucceeds ==
    Repeating =>
        /\ inst.lastAdd.err = ""
        /\ (inst.result \in {"ok", "state"} /\ installQueue = inst.prevQueue) =>
              /\ inst.result = "ok"
              /\ \A i \in 1..Len(installQueue) :
                    Cardinality({r \in prov.src : SameKey(r, installQueue[i])}) = 1


(***************************************************************************)
(* providerComponents: ScaleDownControllers and Delete.                    *)
(***************************************************************************)
\* isResourceNamespaced, for the kinds of the model
Namespaced(kind) == kind \notin {"Namespace", "CustomResourceDefinition", "ClusterRole"}

\* a Provider record as a resource of the store: it has both labels
ProviderObj(i) == CompObj("Provider", i.ns, i.name, i.name, TRUE, 0)

\* k8sproxy.ListResources with the provider label: the kinds that are
\* namespaced are listed in the namespace, the others in the whole cluster
ListResources(C, P, namespace, name) ==
    {o \in C \cup {ProviderObj(i) : i \in P} :
        /\ o.plabel = name
        /\ (namespace = "" \/ ~Namespaced(o.kind) \/ o.ns = namespace)}

\* the store after ScaleDownControllers: the Deployments with the label of
\* the provider in its namespace have no replicas
ScaleDownControllers(C, provider) ==
    { IF o.kind = "Deployment" /\ o.plabel = provider.name /\ o.ns = provider.ns
      THEN [o EXCEPT !.replicas = 0] ELSE o : o \in C }

\* the resources Delete deletes
ResourcesToDelete(C, P, provider, forceDeleteNamespace, forceDeleteCRD) ==
    LET all == ListResources(C, P, provider.ns, provider.name)
        noCRD == IF forceDeleteCRD THEN all
                 ELSE {r \in all : r.kind # "CustomResourceDefinition"}
        namespaces == {r.name : r \in {x \in noCRD : x.kind = "Namespace"}}
    IN IF ~forceDeleteNamespace THEN {r \in noCRD : r.kind # "Namespace"}
       ELSE {r \in noCRD : r.ns \notin namespaces}

\* cs.Delete of a set of resources: with a Namespace goes all that is in it
Gone(D, o) ==
    \/ Ident(o) \in Idents(D)
    \/ \E n \in D : n.kind = "Namespace" /\ o.ns = n.name

DeleteComp(C, D) == {o \in C : ~Gone(D, o)}

DeleteProv(P, D) == {i \in P : ~Gone(D, ProviderObj(i))}

\* a Delete that never scales the controllers down
BeforeDeletionUnscaled(C, provider, forceDeleteCRD) == C

\* the component store when Delete lists the resources: the controllers
\* were scaled down unless the CustomResourceDefinitions are deleted too
BeforeDeletion(C, provider, forceDeleteCRD) ==
    IF forceDeleteCRD THEN C ELSE ScaleDownControllers(C, provider)

\* the component store after Delete
Deleted(C, P, provider, forceDeleteNamespace, forceDeleteCRD) ==
    LET C1 == BeforeDeletion(C, provider, forceDeleteCRD)
    IN DeleteComp(C1, ResourcesToDelete(C1, P, provider, forceDeleteNamespace,
                                        forceDeleteCRD))

\* the Deployments ScaleDownControllers lists
Controllers(C, provider) ==
    {o \in C : o.kind = "Deployment" /\ o.plabel = provider.name /\ o.ns = provider.ns}

\* providerComponents.Delete, of a provider of the registry
Delete ==
    \E provider \in prov.src, forceDeleteNamespace \in BOOLEAN, forceDeleteCRD \in BOOLEAN :
        \/ /\ comp' = [comp EXCEPT !.src =
                         Deleted(@, prov.src, provider, forceDeleteNamespace, forceDeleteCRD)]
           /\ prov' = [prov EXCEPT !.src =
                         DeleteProv(@, ResourcesToDelete(comp.src, @, provider,
                                                         forceDeleteNamespace, forceDeleteCRD))]
           /\ del' = [called |-> TRUE, provider |-> provider,
                      forceDeleteNamespace |-> forceDeleteNamespace,
                      forceDeleteCRD |-> forceDeleteCRD,
                      comp0 |-> comp.src, prov0 |-> prov.src,
                      comp1 |-> BeforeDeletion(comp.src, provider, forceDeleteCRD),
                      err |-> ""]
           /\ UNCHANGED <<objs, moverVars, installQueue, inst, piv, clientVars>>
        \* ScaleDownControllers fails at the list or at a ScaleDeployment,
        \* after it scaled some of the Deployments
        \/ /\ ~forceDeleteCRD
           /\ faults < MaxFaults
           /\ faults' = faults + 1
           /\ \E done \in SUBSET Controllers(comp.src, provider) :
                 /\ done # Controllers(comp.src, provider) \/ done = {}
                 /\ comp' = [comp EXCEPT !.src =
                               {IF o \in done THEN [o EXCEPT !.replicas = 0] ELSE o : o \in @}]
           /\ del' = [called |-> TRUE, provider |-> provider,
                      forceDeleteNamespace |-> forceDeleteNamespace,
                      forceDeleteCRD |-> forceDeleteCRD,
                      comp0 |-> comp.src, prov0 |-> prov.src,
                      comp1 |-> comp.src, err |-> "scale"]
           /\ UNCHANGED <<objs, prov, pc, stack, hist, objs0, orig, installQueue,
                          inst, piv, clientVars>>

(***************************************************************************)
(* SpecDelete: Delete calls on a cluster where providers were installed.   *)
(***************************************************************************)
\* the bundles that were installed
InstalledBundles ==
    { Bundle("aws", "ns1", "v1", "ns1"),
      Bundle("aws", "ns2", "v1", "ns2"),
      Bundle("core", "ns1", "v1", ""),
      Bundle("core", "ns3", "v1", "") }

\* the queues Install ran on: no two bundles with the same namespace and name
InstalledQueues ==
    {<<>>} \cup {<<b>> : b \in InstalledBundles}
    \cup {<<a, b>> : a, b \in InstalledBundles}

\* what else the cluster holds, as in Test_providerComponents_Delete: a Pod
\* without labels in ns1, a Pod with the label of aws
Others ==
    { CompObj("Pod", "ns1", "pod2", "", FALSE, 0),
      CompObj("Pod", "ns2", "pod3", "aws", TRUE, 0) }

Installed(q) ==
    LET r == InstallLoop({}, {}, q, 1, [at |-> 0, in |-> ""])
    IN [comp |-> Detach(r.comp, r.prov), prov |-> r.prov, err |-> r.err]

InitDelete ==
    /\ \E q \in InstalledQueues, others \in SUBSET Others :
          /\ Installed(q).err = ""
          /\ comp = [src |-> Installed(q).comp \cup others, tgt |-> {}]
          /\ prov = [src |-> Installed(q).prov, tgt |-> {}]
    /\ objs = NoStore
    /\ pc = "idle"
    /\ stack = <<>>
    /\ hist = <<>>
    /\ faults = 0
    /\ objs0 = NoStore
    /\ orig = {}
    /\ installQueue = <<>>
    /\ inst = NoInst
    /\ piv = NoPiv
    /\ del = NoDel
    /\ crds = [src |-> Registry, tgt |-> Registry]
    /\ cli = NoCli
    /\ crt = NoCrt
    /\ cm = NoCm

NextDelete == Delete

SpecDelete == InitDelete /\ [][NextDelete]_vars

\* what the last Delete call removed
Removed ==
    (Idents(del.comp0) \ Idents(comp.src))
    \cup {Ident(ProviderObj(i)) : i \in del.prov0 \ prov.src}

\* all that was in the store before the last Delete call
Before == del.comp0 \cup {ProviderObj(i) : i \in del.prov0}

\* C4: Delete of provider P of namespace N removes exactly the objects with
\* the label of P in N, and the Namespace N with all that is in N when
\* forceDeleteNamespace, and the CustomResourceDefinitions with the label of
\* P when forceDeleteCRD; so an object with the label of P in another
\* namespace is never deleted
C4_DeleteRemovesExactly ==
    (del.called /\ del.err = "") =>
        Removed = { Ident(o) : o \in { x \in Before :
            \/ x.plabel = del.provider.name /\ Namespaced(x.kind) /\ x.ns = del.provider.ns
            \/ /\ del.forceDeleteNamespace
               /\ \/ x.kind = "Namespace" /\ x.name = del.provider.ns
                  \/ Namespaced(x.kind) /\ x.ns = del.provider.ns
            \/ /\ del.forceDeleteCRD
               /\ x.kind = "CustomResourceDefinition"
               /\ x.plabel = del.provider.name } }

\* C5: when another instance of the provider is left after the Delete of one
\* instance, the ClusterRoles with the label of the provider are still there
C5_SharedComponentsKept ==
    (del.called /\ \E i \in prov.src : i.name = del.provider.name) =>
        \A o \in del.comp0 :
            (o.kind = "ClusterRole" /\ o.plabel = del.provider.name)
                => Has(comp.src, Ident(o))

\* C39: a Delete of provider P of namespace N with forceDeleteNamespace
\* leaves every Namespace other than N, and every object inside another
\* namespace, in the store
C39_OtherNamespacesKept ==
    (del.called /\ del.err = "" /\ del.forceDeleteNamespace) =>
        \A o \in del.comp0 :
            (\/ o.kind = "Namespace" /\ o.name # del.provider.ns
             \/ Namespaced(o.kind) /\ o.ns # del.provider.ns)
                => Has(comp.src, Ident(o))


(***************************************************************************)
(* moverService.Pivot: install the providers in the target, scale down the *)
(* controllers in the source, move the objects, delete the providers from  *)
(* the source.                                                             *)
(***************************************************************************)
\* metadataClient.List: the records in the order of their keys
KeyLess(a, b) ==
    \/ NameRank(a.ns) < NameRank(b.ns)
    \/ a.ns = b.ns /\ NameRank(a.name) < NameRank(b.name)

RECURSIVE List(_)
List(P) ==
    IF P = {} THEN <<>>
    ELSE LET first == CHOOSE i \in P : \A j \in P : j = i \/ KeyLess(i, j)
         IN <<first>> \o List(P \ {first})

\* the check that lets the install loop skip a provider
AlreadyInstalled(P, provider) ==
    \E i \in P : /\ SameKey(i, provider)
                 /\ i.version = provider.version
                 /\ i.watched = provider.watched

\* providerComponents.Pivot on one resource: when the Get in the target says
\* NotFound the resource is updated there, and then, as in every other case,
\* the resource is created there
PivotResourceOk(T, r) ==
    /\ ~Has(T, Ident(r)) => Has(T, Ident(r))     \* Update of what is not there
    /\ ~Has(T, Ident(r))                         \* Create of what is there

\* providerComponents.Pivot: the resources with the clusterctl label, which
\* are the components and the Provider records
PivotOk(C, P, Cto, Pto) ==
    \A r \in {o \in C \cup {ProviderObj(i) : i \in P} : o.clabel} :
        PivotResourceOk(Cto \cup {ProviderObj(i) : i \in Pto}, r)

\* forceDeleteCRD of the delete loop for providers[i]
ForceDeleteCRD(providers, i) ==
    ~(\E j \in i..Len(providers) : providers[j].name = providers[i].name)

\* what follows a move that fails without caring for the error
AfterMoveAnyway(result) == "delete"

\* what follows providerObjects.Pivot
AfterMove(result) == IF result = "done" THEN "delete" ELSE "failed"

AllScaledDown(C, providers) ==
    \A k \in 1..Len(providers) :
        \A o \in C : (o.kind = "Deployment" /\ o.plabel = providers[k].name
                      /\ o.ns = providers[k].ns) => o.replicas = 0

\* at the end of a loop over the providers
NextPhase(phase, i, next) ==
    IF i > Len(piv.providers)
    THEN [piv EXCEPT !.phase = next, !.i = 1]
    ELSE [piv EXCEPT !.phase = phase, !.i = i]

\* clusterctlClient.Pivot up to the call of moverService.Pivot: the client
\* of the source cluster, its registry, the client of the target cluster,
\* its registry
clusterctlClientPivot ==
    /\ cli.phase = "idle"
    /\ \E fromOk, toOk \in BOOLEAN, f1, f2 \in 0..Len(Manifest) :
          LET from == EnsureMetadata(crds.src, f1)
              to == EnsureMetadata(crds.tgt, f2)
              Returned(step, ret) ==
                  [cli EXCEPT !.op = "Pivot", !.phase = "returned",
                              !.err = step, !.ret = ret]
          IN /\ (f1 > 0 \/ f2 > 0) => faults < MaxFaults /\ (f1 = 0 \/ f2 = 0)
             /\ IF ~fromOk
                THEN /\ f1 = 0 /\ f2 = 0 /\ toOk
                     /\ cli' = Returned("fromCluster", "nil")
                     /\ UNCHANGED crds
                ELSE IF from.err # ""
                THEN /\ f2 = 0 /\ toOk
                     /\ cli' = Returned("fromMetadata", "error")
                     /\ crds' = [crds EXCEPT !.src = from.crds]
                ELSE IF ~toOk
                THEN /\ f2 = 0
                     /\ cli' = Returned("toCluster", "nil")
                     /\ crds' = [crds EXCEPT !.src = from.crds]
                ELSE IF to.err # ""
                THEN /\ cli' = Returned("toMetadata", "error")
                     /\ crds' = [src |-> from.crds, tgt |-> to.crds]
                ELSE /\ cli' = [cli EXCEPT !.op = "Pivot", !.phase = "mover"]
                     /\ crds' = [src |-> from.crds, tgt |-> to.crds]
             /\ faults' = IF f1 > 0 \/ f2 > 0 THEN faults + 1 ELSE faults
    /\ UNCHANGED <<storeVars, pc, stack, hist, objs0, orig, installQueue, inst,
                   piv, del, crt, cm>>

\* moverService.Pivot has returned to clusterctlClient.Pivot
clusterctlClientPivotReturned ==
    /\ cli.phase = "mover"
    /\ piv.phase \in {"done", "failed"}
    /\ cli' = [cli EXCEPT !.phase = "returned",
                          !.err = IF piv.phase = "failed" THEN "mover" ELSE "",
                          !.ret = IF piv.phase = "failed" THEN "error" ELSE "nil"]
    /\ UNCHANGED <<storeVars, moverVars, installQueue, inst, piv, del, crds, crt, cm>>

moverServicePivot ==
    /\ cli.phase = "mover"
    /\ piv.phase = "idle"
    /\ piv' = [piv EXCEPT !.providers = List(prov.src), !.i = 1,
                          !.phase = IF prov.src = {} THEN "scale" ELSE "install"]
    /\ UNCHANGED <<storeVars, moverVars, installQueue, inst, del, clientVars>>

\* one round of the install loop
PivotInstall ==
    /\ piv.phase = "install"
    /\ LET provider == piv.providers[piv.i]
       IN piv' = IF AlreadyInstalled(prov.tgt, provider)
                 THEN NextPhase("install", piv.i + 1, "scale")
                 ELSE IF Validate(prov.tgt, provider) # ""
                 THEN [piv EXCEPT !.phase = "failed", !.err = "validate"]
                 ELSE IF ~PivotOk(comp.src, prov.src, comp.tgt, prov.tgt)
                 THEN [piv EXCEPT !.phase = "failed", !.err = "components"]
                 ELSE NextPhase("install", piv.i + 1, "scale")
    /\ UNCHANGED <<storeVars, moverVars, installQueue, inst, del, clientVars>>

\* one round of the scale down loop
PivotScaleDown ==
    /\ piv.phase = "scale"
    /\ IF piv.i > Len(piv.providers)
       THEN /\ piv' = [piv EXCEPT !.phase = "move"]
            /\ UNCHANGED <<comp, faults>>
       ELSE \/ /\ comp' = [comp EXCEPT !.src =
                              ScaleDownControllers(@, piv.providers[piv.i])]
               /\ piv' = NextPhase("scale", piv.i + 1, "move")
               /\ UNCHANGED faults
            \/ /\ faults < MaxFaults
               /\ faults' = faults + 1
               /\ piv' = [piv EXCEPT !.phase = "failed", !.err = "scale"]
               /\ UNCHANGED comp
    /\ UNCHANGED <<objs, prov, pc, stack, hist, objs0, orig, installQueue,
                   inst, del, clientVars>>

\* providerObjects.Pivot is called
PivotMoveObjects ==
    /\ piv.phase = "move"
    /\ pc = "idle"
    /\ pc' = "running"
    /\ stack' = PivotCalls
    /\ objs0' = objs
    /\ orig' = objs.src
    /\ piv' = [piv EXCEPT !.phase = "moving"]
    /\ UNCHANGED <<storeVars, hist, faults, installQueue, inst, del,
                   clientVars>>

\* providerObjects.Pivot has returned
PivotMoveReturned ==
    /\ piv.phase = "moving"
    /\ pc \in {"done", "failed"}
    /\ piv' = [piv EXCEPT !.phase = AfterMove(pc), !.i = 1,
                          !.err = IF AfterMove(pc) = "failed" THEN "move" ELSE ""]
    /\ UNCHANGED <<storeVars, moverVars, installQueue, inst, del, clientVars>>

\* one round of the delete loop
PivotDelete ==
    /\ piv.phase = "delete"
    /\ IF piv.i > Len(piv.providers)
       THEN /\ piv' = [piv EXCEPT !.phase = "done"]
            /\ UNCHANGED <<comp, prov>>
       ELSE LET provider == piv.providers[piv.i]
                fcrd == ForceDeleteCRD(piv.providers, piv.i)
            IN /\ comp' = [comp EXCEPT !.src =
                              Deleted(@, prov.src, provider, FALSE, fcrd)]
               /\ prov' = [prov EXCEPT !.src =
                              DeleteProv(@, ResourcesToDelete(comp.src, @, provider,
                                                              FALSE, fcrd))]
               /\ piv' = [NextPhase("delete", piv.i + 1, "done") EXCEPT
                            !.deleted = Append(@, [provider |-> provider,
                                                   forceDeleteNamespace |-> FALSE,
                                                   forceDeleteCRD |-> fcrd])]
    /\ UNCHANGED <<objs, moverVars, installQueue, inst, del, clientVars>>


(***************************************************************************)
(* SpecPivot: moverService.Pivot from a cluster where providers were       *)
(* installed to a cluster that is empty or where providers were installed. *)
(***************************************************************************)
\* the graphs of the source
PivotParams ==
    {p \in Params : /\ ~p.fin
                    /\ p.ms = "none"
                    /\ p.m1 # "deleting"
                    /\ p.msd \in {"none", "same"}
                    /\ p.m2 \in {"none", "alone"}}

InitPivot ==
    /\ \E qs \in InstalledQueues, qt \in InstalledQueues, p \in PivotParams :
          /\ Installed(qs).err = ""
          /\ Installed(qt).err = ""
          /\ comp = [src |-> Installed(qs).comp, tgt |-> Installed(qt).comp]
          /\ prov = [src |-> Installed(qs).prov, tgt |-> Installed(qt).prov]
          /\ objs = [src |-> SourceObjects(p), tgt |-> {}]
    /\ pc = "idle"
    /\ stack = <<>>
    /\ hist = <<>>
    /\ faults = 0
    /\ objs0 = NoStore
    /\ orig = {}
    /\ installQueue = <<>>
    /\ inst = NoInst
    /\ piv = NoPiv
    /\ del = NoDel
    /\ crds \in [{"src", "tgt"} -> {{}, Registry}]
    /\ prov.src # {} => crds.src = Registry
    /\ prov.tgt # {} => crds.tgt = Registry
    /\ cli = NoCli
    /\ crt = NoCrt
    /\ cm = NoCm

NextPivot ==
    \/ clusterctlClientPivot
    \/ clusterctlClientPivotReturned
    \/ moverServicePivot
    \/ PivotInstall
    \/ PivotScaleDown
    \/ PivotMoveObjects
    \/ PivotMoveReturned
    \/ PivotDelete
    \/ MoverStep

SpecPivot == InitPivot /\ [][NextPivot]_vars

\* C6: in the delete loop a provider is deleted with forceDeleteCRD exactly
\* when no provider after it in the list has its name
C6_LastInstanceTakesCRDs ==
    \A k \in 1..Len(piv.deleted) :
        piv.deleted[k].forceDeleteCRD
            <=> ~(\E j \in (k + 1)..Len(piv.providers) :
                     piv.providers[j].name = piv.providers[k].name)

\* C7: a provider that the target does not hold with the same version and
\* watched namespace, and that Validate accepts, has its components
\* reconciled into the target without error, on a target that holds none of
\* them and on one that holds some
C7_InstallReconciles ==
    piv.err # "components"

\* C8: the graph objects are written only while the object mover runs, and
\* then the controllers of every source provider are scaled down; the mover
\* is started once, after the scale down loop; components are deleted from
\* the source only after the mover returned nil; nothing is written to the
\* source before the install loop ended without error
C8_PhasesInOrder ==
    [][ /\ objs' # objs =>
            /\ piv.phase = "moving"
            /\ AllScaledDown(comp.src, piv.providers)
        /\ (pc # "running" /\ pc' = "running") =>
            /\ hist = <<>>
            /\ piv.phase = "move"
            /\ AllScaledDown(comp.src, piv.providers)
        /\ ~(Idents(comp.src) \subseteq Idents(comp'.src)) =>
            /\ piv.phase = "delete"
            /\ hist = <<"ok">>
        /\ comp'.src # comp.src => piv.phase \in {"scale", "delete"}
        /\ comp'.tgt # comp.tgt => piv.phase \in {"install", "moving"}
      ]_vars

\* a Pivot that went through every phase: graph objects moved, then
\* providers deleted
C8_AllPhasesRan ==
    /\ piv.phase = "done"
    /\ objs.tgt # {}
    /\ piv.deleted # <<>>
    /\ hist = <<"ok">>

\* C11: clusterctlClient.Pivot returns nil exactly when no step failed and
\* moverService.Pivot went through all its phases; a step that fails, the
\* client of the source or of the target cluster included, makes it return
\* an error
C11_PivotReportsFailure ==
    (cli.op = "Pivot" /\ cli.phase = "returned") =>
        /\ cli.err # "" => cli.ret = "error"
        /\ cli.ret = "nil" => piv.phase = "done"

(***************************************************************************)
(* clusterctlClient.Init: the registry is ensured, the providers of the    *)
(* batch are added to a new installer, the installer installs them.        *)
(* A provider argument ("[namespace/]name[:version]") is the sequence of   *)
(* its words and separators.                                               *)
(***************************************************************************)
\* config.CAPI
CAPI == "core"

\* the providers of the configuration and their types
ProviderType(name) ==
    CASE name = "core" -> "CoreProvider"
      [] name = "boot" -> "BootstrapProvider"
      [] name = "aws" -> "InfrastructureProvider"
      [] OTHER -> ""

\* the repository of a provider: its versions, the default one, and the
\* Namespace of its components yaml
Repository(name) ==
    [versions |-> {"v1", "v2"}, defaultVersion |-> "v1",
     namespace |-> CASE name = "core" -> "ns1"
                     [] name = "boot" -> "ns2"
                     [] OTHER -> "ns3"]

\* strings.Split
RECURSIVE Split(_, _)
Split(s, sep) ==
    IF \A k \in 1..Len(s) : s[k] # sep THEN <<s>>
    ELSE LET k == CHOOSE i \in 1..Len(s) :
                     s[i] = sep /\ \A j \in 1..(i - 1) : s[j] # sep
         IN <<SubSeq(s, 1, k - 1)>> \o Split(SubSeq(s, k + 1, Len(s)), sep)

\* strings.ToLower of a word
ToLower(w) == IF w = "AWS" THEN "aws" ELSE w

\* the string a piece between two separators stands for
Word(piece) == IF piece = <<>> THEN "" ELSE ToLower(piece[1])

\* validation.IsDNS1123Label: not empty, starts and ends with an
\* alphanumeric character
IsDNS1123Label(name) ==
    /\ name # ""
    /\ Chars(name)[1] # "-"
    /\ Chars(name)[Len(Chars(name))] # "-"

\* parseProviderName once the argument is split at "/" (t1) and what
\* follows the namespace is split at ":" (t2)
parsedProviderName(t1, t2) ==
    IF Len(t1) > 2 \/ Len(t2) > 2 \/ ~IsDNS1123Label(Word(t2[1]))
    THEN [err |-> "parse", namespace |-> "", name |-> "", version |-> ""]
    ELSE [err |-> "",
          namespace |-> IF Len(t1) = 2 THEN Word(t1[1]) ELSE "",
          name |-> Word(t2[1]),
          version |-> IF Len(t2) > 1 THEN Word(t2[2]) ELSE ""]

splitProviderName(provider, t1) ==
    parsedProviderName(t1, Split(IF Len(t1) = 2 THEN t1[2] ELSE provider, ":"))

parseProviderName(provider) == splitProviderName(provider, Split(provider, "/"))

\* what getComponentsByName does with the parsed name p: the provider of
\* the configuration, componentsClient.Get and newComponents; the bundle,
\* or the step that fails
componentsGet(p, targetNameSpace, watchingNamespace) ==
    LET namespace == IF targetNameSpace # "" THEN targetNameSpace ELSE p.namespace
        repository == Repository(p.name)
        version == IF p.version = "" THEN repository.defaultVersion ELSE p.version
    IN IF p.err # "" THEN [err |-> p.err, components |-> NoBundle]
       ELSE IF ProviderType(p.name) = "" THEN [err |-> "config", components |-> NoBundle]
       ELSE IF version \notin repository.versions
       THEN [err |-> "repository", components |-> NoBundle]
       ELSE [err |-> "",
             components |-> Bundle(p.name,
                                   IF namespace = "" THEN repository.namespace
                                   ELSE namespace,
                                   version, watchingNamespace)]

getComponentsByName(provider, targetNameSpace, watchingNamespace) ==
    componentsGet(parseProviderName(provider), targetNameSpace, watchingNamespace)

\* one round of the loop of addToInstaller, c being what getComponentsByName
\* returned: the queue after it and the step that failed
addProvider(P, q, ttype, c, force) ==
    IF c.err # "" THEN [queue |-> q, err |-> c.err]
    ELSE IF ProviderType(c.components.name) # ttype
    THEN [queue |-> q, err |-> "type"]
    ELSE IF Validate(P, Metadata(c.components)) # "" /\ ~force
    THEN [queue |-> q, err |-> "validate"]
    ELSE [queue |-> Append(q, c.components), err |-> ""]

\* clusterctlClient.addToInstaller on an installer whose queue is q: the
\* queue after the call and the step that failed; andThen: the rounds that
\* follow a round that ended with r
RECURSIVE addToInstaller(_, _, _, _, _, _, _)
RECURSIVE andThen(_, _, _, _, _, _, _)
andThen(r, P, ttype, targetNameSpace, watchingNamespace, force, providers) ==
    IF r.err # "" THEN r
    ELSE addToInstaller(P, r.queue, ttype, targetNameSpace, watchingNamespace,
                        force, providers)

addToInstaller(P, q, ttype, targetNameSpace, watchingNamespace, force, providers) ==
    IF providers = <<>> THEN [queue |-> q, err |-> ""]
    ELSE andThen(addProvider(P, q, ttype,
                             getComponentsByName(Head(providers), targetNameSpace,
                                                 watchingNamespace),
                             force),
                 P, ttype, targetNameSpace, watchingNamespace, force,
                 Tail(providers))

\* the core provider that is always added when none is given
coreProviderAlways(hasCRD, coreProvider) ==
    IF coreProvider = <<>> THEN <<CAPI>> ELSE coreProvider

\* the core provider Init adds: the one given, config.CAPI when none is
\* given and the registry was not there
coreProviderOf(hasCRD, coreProvider) ==
    IF ~hasCRD /\ coreProvider = <<>> THEN <<CAPI>> ELSE coreProvider

\* the three addToInstaller calls of Init on a new installer
AddBatch(P, hasCRD, args) ==
    andThen(
        andThen(
            IF coreProviderOf(hasCRD, args.coreProvider) = <<>>
            THEN [queue |-> <<>>, err |-> ""]
            ELSE addToInstaller(P, <<>>, "CoreProvider", args.targetNameSpace,
                                args.watchingNamespace, args.force,
                                <<coreProviderOf(hasCRD, args.coreProvider)>>),
            P, "BootstrapProvider", args.targetNameSpace,
            args.watchingNamespace, args.force, args.bootstrapProviders),
        P, "InfrastructureProvider", args.targetNameSpace,
        args.watchingNamespace, args.force, args.infrastructureProviders)

\* Install is called whatever the addToInstaller calls returned, as long as
\* they queued something
installsQueued(batch) == batch.queue # <<>> \/ batch.err = ""

\* Install is called when no addToInstaller call returned an error
installs(batch) == batch.err = ""

\* the arguments Init is called with: a namespace for every provider, or a
\* namespace to watch, or force, or none of them
InitOptions ==
    {[targetNameSpace |-> "", watchingNamespace |-> "", force |-> FALSE],
     [targetNameSpace |-> "ns1", watchingNamespace |-> "", force |-> FALSE],
     [targetNameSpace |-> "", watchingNamespace |-> "ns1", force |-> FALSE],
     [targetNameSpace |-> "", watchingNamespace |-> "", force |-> TRUE]}

\* with providers that exist, and with a list of infrastructure providers
\* where one has a name that cannot be parsed, or is not a DNS label, or is
\* not in the configuration, or has a version its repository has not
InitArgs ==
    {[coreProvider |-> c, bootstrapProviders |-> b,
      infrastructureProviders |-> i, targetNameSpace |-> o.targetNameSpace,
      watchingNamespace |-> o.watchingNamespace, force |-> o.force] :
        c \in {<<>>, <<"core", ":", "v2">>, <<"aws">>},
        b \in {<<>>, << <<"boot">> >>},
        i \in {<< <<"AWS">> >>,
               << <<"aws">>, <<"ns2", "/", "aws", ":", "v2">> >>},
        o \in InitOptions}
    \cup
    {[NoArgs EXCEPT !.infrastructureProviders = i] :
        i \in {<< <<"aws", ":", "v1", ":", "v2">> >>,
               << <<"-aws">> >>,
               << <<"gcp">> >>,
               << <<"aws">>, <<"aws", ":", "v9">> >>}}

\* what a call of an operation starts from
Called(op) ==
    [NoCli EXCEPT !.op = op, !.phase = "returned", !.again = cli.op # "",
                  !.prevOp = cli.op, !.prevErr = cli.err,
                  !.crds0 = crds.src, !.comp0 = comp.src, !.prov0 = prov.src]

Outcome(em) == IF em.err # "" THEN "error" ELSE IF em.hasCRD THEN "exists" ELSE "new"

\* metadataClient.EnsureMetadata called on the cluster
EnsureMetadataCall ==
    /\ Len(cli.rets) < MaxCalls
    /\ \E f \in 0..Len(Manifest) :
         LET em == EnsureMetadata(crds.src, f)
         IN /\ f > 0 => faults < MaxFaults /\ em.err # ""
            /\ faults' = IF f > 0 THEN faults + 1 ELSE faults
            /\ crds' = [crds EXCEPT !.src = em.crds]
            /\ cli' = [cli EXCEPT !.rets = Append(@, Outcome(em)),
                                  !.reg0 = crds.src]
    /\ UNCHANGED <<storeVars, pc, stack, hist, objs0, orig, installQueue, inst,
                   piv, del, crt, cm>>

clusterctlClientInit ==
    /\ ~cli.again
    /\ \E args \in InitArgs, clusterOk \in BOOLEAN, f \in 0..Len(Manifest) :
       \E em \in {EnsureMetadata(crds.src, f)} :
       \E batch \in {AddBatch(prov.src, em.hasCRD, args)} :
       \E ensured \in {[Called("Init") EXCEPT
                          !.args = args,
                          !.rets = Append(cli.rets, Outcome(em)),
                          !.reg0 = crds.src,
                          !.firstRun = ~em.hasCRD]} :
         /\ f > 0 => clusterOk /\ faults < MaxFaults /\ em.err # ""
         /\ IF ~clusterOk
            THEN /\ cli' = [Called("Init") EXCEPT
                              !.args = args, !.err = "cluster", !.ret = "error",
                              !.rets = cli.rets, !.reg0 = cli.reg0]
                 /\ UNCHANGED <<comp, prov, crds, faults>>
            ELSE IF em.err # ""
            THEN /\ cli' = [ensured EXCEPT !.err = "metadata", !.ret = "error"]
                 /\ crds' = [crds EXCEPT !.src = em.crds]
                 /\ faults' = faults + 1
                 /\ UNCHANGED <<comp, prov>>
            ELSE IF ~installs(batch)
            THEN /\ cli' = [ensured EXCEPT !.err = batch.err, !.ret = "error",
                                           !.queue = batch.queue]
                 /\ crds' = [crds EXCEPT !.src = em.crds]
                 /\ UNCHANGED <<comp, prov, faults>>
            ELSE \E fault \in InstallFaults(batch.queue) :
                 \E r \in {InstallLoop(comp.src, prov.src, batch.queue, 1, fault)} :
                 \E ok \in {r.err = "" /\ batch.err = "" /\ DetachOk(r.comp, r.prov)} :
                   /\ fault.at = 0 \/ (faults < MaxFaults /\ r.err = "store")
                   /\ faults' = IF fault.at = 0 THEN faults ELSE faults + 1
                   /\ crds' = [crds EXCEPT !.src = em.crds]
                   /\ comp' = [comp EXCEPT !.src =
                                  IF r.err = "" /\ DetachOk(r.comp, r.prov)
                                  THEN Detach(r.comp, r.prov) ELSE r.comp]
                   /\ prov' = [prov EXCEPT !.src = r.prov]
                   /\ cli' = [ensured EXCEPT
                                !.err = IF batch.err # "" THEN batch.err
                                        ELSE IF ok THEN "" ELSE "install",
                                !.ret = IF ok THEN "nil" ELSE "error",
                                !.queue = batch.queue,
                                !.installed = TRUE,
                                !.got = IF ok THEN batch.queue ELSE <<>>]
    /\ UNCHANGED <<objs, pc, stack, hist, objs0, orig, installQueue, inst, piv,
                   del, crt, cm>>

(***************************************************************************)
(* SpecInit: Init and EnsureMetadata called on a cluster that starts       *)
(* empty.                                                                  *)
(***************************************************************************)
InitInit ==
    /\ objs = NoStore
    /\ comp = NoStore
    /\ prov = NoStore
    /\ pc = "idle"
    /\ stack = <<>>
    /\ hist = <<>>
    /\ faults = 0
    /\ objs0 = NoStore
    /\ orig = {}
    /\ installQueue = <<>>
    /\ inst = NoInst
    /\ piv = NoPiv
    /\ del = NoDel
    /\ crds = NoStore
    /\ cli = NoCli
    /\ crt = NoCrt
    /\ cm = NoCm

NextInit == EnsureMetadataCall \/ clusterctlClientInit

SpecInit == InitInit /\ [][NextInit]_vars

\* C13: a call of EnsureMetadata that meets no store error, on a store that
\* holds no registry object, creates the registry objects and returns
\* (false, nil); after a call that returned (false, nil) no call returns
\* (false, nil) again; a call that returns (true, nil) leaves the store as
\* it was
C13_EnsureMetadataOnce ==
    cli.rets # <<>> =>
        LET last == cli.rets[Len(cli.rets)]
        IN /\ (cli.reg0 = {} /\ last # "error") =>
                  last = "new" /\ crds.src = Registry
           /\ (cli.reg0 # {} /\ last # "error") => last = "exists"
           /\ last = "exists" => crds.src = cli.reg0
           /\ \A k \in 1..Len(cli.rets) : \A j \in (k + 1)..Len(cli.rets) :
                  cli.rets[k] = "new" => cli.rets[j] # "new"

\* three calls, the last by Init: the first created the registry, the
\* others found it
C13_CalledAgain ==
    /\ cli.rets = <<"new", "exists", "exists">>
    /\ crds.src = Registry

\* C14: an Init that returns nil returns the bundles it installed, in the
\* order core, bootstrap, infrastructure; the core provider is among them
\* when it was asked for, and, on a cluster whose registry did not exist,
\* also when it was not (config.CAPI then); on a cluster whose registry
\* existed no core provider is added unless asked for; each bundle has the
\* version asked for, or the default one of its repository, and the
\* namespace asked for, or the one of its components, and its record is in
\* the registry
C14_InitReturnsBatch ==
    (cli.op = "Init" /\ cli.ret = "nil" /\ cli.crds0 \in {{}, Registry}) =>
        LET args == cli.args
            core == IF args.coreProvider # <<>> THEN <<args.coreProvider>>
                    ELSE IF cli.crds0 = {} THEN << <<CAPI>> >> ELSE <<>>
            asked == core \o args.bootstrapProviders \o args.infrastructureProviders
            ttype(k) == IF k <= Len(core) THEN "CoreProvider"
                        ELSE IF k <= Len(core) + Len(args.bootstrapProviders)
                        THEN "BootstrapProvider"
                        ELSE "InfrastructureProvider"
        IN /\ cli.firstRun <=> cli.crds0 = {}
           /\ Len(cli.got) = Len(asked)
           /\ \A k \in 1..Len(asked) :
                LET p == parseProviderName(asked[k])
                    b == cli.got[k]
                IN /\ b.name = p.name
                   /\ ProviderType(b.name) = ttype(k)
                   /\ b.version = IF p.version # "" THEN p.version
                                  ELSE Repository(p.name).defaultVersion
                   /\ b.ns = IF args.targetNameSpace # "" THEN args.targetNameSpace
                             ELSE IF p.namespace # "" THEN p.namespace
                             ELSE Repository(p.name).namespace
                   /\ b.watched = args.watchingNamespace
                   /\ \E i \in prov.src : SameKey(i, b) /\ i.version = b.version

\* Init on an empty cluster with no core provider given: the core provider,
\* the bootstrap provider and two instances of the infrastructure provider
\* are returned
C14_CoreAddedOnEmptyCluster ==
    /\ cli.op = "Init" /\ cli.ret = "nil"
    /\ cli.crds0 = {}
    /\ cli.args.coreProvider = <<>>
    /\ Len(cli.got) = 4
    /\ cli.got[1].name = CAPI

\* the providers of the batch of the last Init, with the type each is added
\* as
Batch ==
    LET core == coreProviderOf(~cli.firstRun, cli.args.coreProvider)
    IN (IF core = <<>> THEN <<>> ELSE <<[ttype |-> "CoreProvider", provider |-> core]>>)
       \o [k \in 1..Len(cli.args.bootstrapProviders) |->
              [ttype |-> "BootstrapProvider",
               provider |-> cli.args.bootstrapProviders[k]]]
       \o [k \in 1..Len(cli.args.infrastructureProviders) |->
              [ttype |-> "InfrastructureProvider",
               provider |-> cli.args.infrastructureProviders[k]]]

\* C15: when a provider of the batch has a name that cannot be parsed or
\* resolved, or is not of the type it is given as, or is rejected by
\* Validate while force is not set, Init returns an error, Install is not
\* called, and the components and the records of the store are as they were
\* before the call
C15_InitAllOrNothing ==
    (/\ cli.op = "Init"
     /\ cli.err \notin {"cluster", "metadata"}
     /\ \E k \in 1..Len(Batch) :
          LET c == getComponentsByName(Batch[k].provider, cli.args.targetNameSpace,
                                       cli.args.watchingNamespace)
          IN \/ c.err # ""
             \/ ProviderType(c.components.name) # Batch[k].ttype
             \/ ~cli.args.force /\ Validate(cli.prov0, Metadata(c.components)) # "")
    => /\ cli.ret = "error"
       /\ ~cli.installed
       /\ comp.src = cli.comp0
       /\ prov.src = cli.prov0

\* an Init that stopped at a provider Validate rejected, after it had added
\* another to the installer, on a cluster where providers are installed
C15_RejectedAfterAdd ==
    /\ cli.op = "Init"
    /\ cli.err = "validate"
    /\ cli.queue # <<>>
    /\ cli.prov0 # {}

\* C38: an Init with an empty coreProvider that returns nil, called after an
\* Init that failed on the empty cluster (its EnsureMetadata found no
\* registry) before it installed anything, installs the core provider:
\* config.CAPI is the first bundle it returns
C38_CoreAddedAfterFailedInit ==
    (/\ cli.op = "Init" /\ cli.ret = "nil"
     /\ cli.prevOp = "Init" /\ cli.prevErr \notin {"", "cluster", "metadata", "install"}
     /\ cli.rets = <<"new", "exists">>
     /\ cli.comp0 = {} /\ cli.prov0 = {}
     /\ cli.args.coreProvider = <<>>) =>
        /\ cli.got # <<>>
        /\ cli.got[1].name = CAPI

(***************************************************************************)
(* providerComponents.Create, one resource at a time.                      *)
(***************************************************************************)
defaultCreatePriorities ==
    <<"Namespace", "CustomResourceDefinition", "StorageClass",
      "PersistentVolume", "PersistentVolumeClaim", "Secret", "ConfigMap",
      "ServiceAccount", "LimitRange", "Pods", "ReplicaSet", "Endpoints">>

\* the first loop of sortResourcesForCreate, from the priority k on
RECURSIVE ByPriority(_, _)
ByPriority(resources, k) ==
    IF k > Len(defaultCreatePriorities) THEN <<>>
    ELSE LET IsKind(o) == o.kind = defaultCreatePriorities[k]
         IN SelectSeq(resources, IsKind) \o ByPriority(resources, k + 1)

\* the resources in the order of the yaml
sortResourcesAsGiven(resources) == resources

sortResourcesForCreate(resources) ==
    LET ret == ByPriority(resources, 1)
        Other(o) == ~(\E k \in 1..Len(ret) : Ident(ret[k]) = Ident(o))
    IN ret \o SelectSeq(resources, Other)

\* the orders the objects of a set can be given in
RECURSIVE Orders(_)
Orders(S) ==
    IF S = {} THEN {<<>>}
    ELSE UNION {{<<o>> \o t : t \in Orders(S \ {o})} : o \in S}

\* a Pod of the bundle, as in the components yaml of the tests
PodObj(b) == CompObj("Pod", b.ns, "manager", b.name, TRUE, 0)

\* the resource version of a stored object: 1 when it was created, one
\* more at every update; the objects Create did not write yet were created
\* once
ResourceVersion(rvs, id) ==
    IF \E e \in rvs : e.id = id THEN (CHOOSE e \in rvs : e.id = id).rv ELSE 1

\* the store answers a create of an object that exists, and an update of an
\* object that is missing or whose resource version is not the stored one,
\* with an error
StoreAccepts(C, rvs, r, verb, rv) ==
    IF verb = "create" THEN ~Has(C, Ident(r)) /\ rv = 0
    ELSE Has(C, Ident(r)) /\ rv = ResourceVersion(rvs, Ident(r))

\* a loop of Create that creates every resource, found or not
componentsWriteCreateOnly(C, rvs, r) ==
    [verb |-> "create", rv |-> 0, ok |-> StoreAccepts(C, rvs, r, "create", 0)]

\* one round of the loop of Create: Get, then Create when the resource is
\* not found, else Update with the resource version Get returned (0 is the
\* empty resource version of the yaml)
componentsWrite(C, rvs, r) ==
    IF ~Has(C, Ident(r))
    THEN [verb |-> "create", rv |-> 0, ok |-> StoreAccepts(C, rvs, r, "create", 0)]
    ELSE LET current == ResourceVersion(rvs, Ident(r))
         IN [verb |-> "update", rv |-> current,
             ok |-> StoreAccepts(C, rvs, r, "update", current)]

\* Create is called with a bundle, and called again with the same bundle
ComponentsCreateCall ==
    /\ crt.runs < MaxCreates
    /\ \/ /\ crt.phase = "idle"
          /\ \E b \in Bundles : \E objects \in Orders(BundleObjs(b) \cup {PodObj(b)}) :
               crt' = [crt EXCEPT !.phase = "running", !.objs = objects,
                         !.todo = sortResourcesForCreate(objects),
                         !.comp0 = comp.src, !.runs = 1]
       \/ /\ crt.phase \in {"done", "failed"}
          /\ crt' = [crt EXCEPT !.phase = "running",
                       !.todo = sortResourcesForCreate(crt.objs),
                       !.writes = <<>>, !.verbs = <<>>,
                       !.comp0 = comp.src, !.runs = @ + 1]
    /\ UNCHANGED <<storeVars, moverVars, installQueue, inst, piv, del, crds, cli, cm>>

\* one round of the loop of Create: the resource is read, created when it is
\* not found and updated when it is; a store error ends the call
ComponentsCreateResource ==
    /\ crt.phase = "running"
    /\ \/ /\ crt.todo # <<>>
          /\ \E w \in {componentsWrite(comp.src, crt.rvs, Head(crt.todo))} :
               IF w.ok
               THEN /\ comp' = [comp EXCEPT !.src =
                                  {o \in @ : Ident(o) # Ident(Head(crt.todo))}
                                  \cup {Head(crt.todo)}]
                    /\ crt' = [crt EXCEPT
                         !.todo = Tail(@),
                         !.writes = Append(@, Head(crt.todo)),
                         !.verbs = Append(@, [verb |-> w.verb, rv |-> w.rv]),
                         !.rvs = {e \in @ : e.id # Ident(Head(crt.todo))}
                                 \cup {[id |-> Ident(Head(crt.todo)), rv |-> w.rv + 1]},
                         !.phase = IF Tail(crt.todo) = <<>> THEN "done" ELSE "running"]
               ELSE /\ crt' = [crt EXCEPT !.phase = "failed"]
                    /\ UNCHANGED comp
          /\ UNCHANGED faults
       \/ /\ crt.todo # <<>>
          /\ faults < MaxFaults
          /\ faults' = faults + 1
          /\ crt' = [crt EXCEPT !.phase = "failed"]
          /\ UNCHANGED comp
    /\ UNCHANGED <<objs, prov, pc, stack, hist, objs0, orig, installQueue, inst,
                   piv, del, crds, cli, cm>>

(***************************************************************************)
(* SpecCreate: Create called with the objects of a bundle in any order, on *)
(* an empty cluster and on one where bundles are installed.                *)
(***************************************************************************)
InitCreate ==
    /\ \E q \in InstalledQueues :
          /\ Installed(q).err = ""
          /\ comp = [src |-> Installed(q).comp, tgt |-> {}]
          /\ prov = [src |-> Installed(q).prov, tgt |-> {}]
    /\ objs = NoStore
    /\ pc = "idle"
    /\ stack = <<>>
    /\ hist = <<>>
    /\ faults = 0
    /\ objs0 = NoStore
    /\ orig = {}
    /\ installQueue = <<>>
    /\ inst = NoInst
    /\ piv = NoPiv
    /\ del = NoDel
    /\ crds = [src |-> Registry, tgt |-> Registry]
    /\ cli = NoCli
    /\ crt = NoCrt
    /\ cm = NoCm

NextCreate == ComponentsCreateCall \/ ComponentsCreateResource

SpecCreate == InitCreate /\ [][NextCreate]_vars

\* C20: whatever the order of the objects of the bundle, Create writes its
\* Namespace before its CustomResourceDefinition and its
\* CustomResourceDefinition before its Deployment, and a Create that ends
\* without error has written every object of the bundle once
C20_CreateOrder ==
    /\ \A i, j \in 1..Len(crt.writes) :
          /\ (crt.writes[i].kind = "Namespace"
              /\ crt.writes[j].kind \in {"CustomResourceDefinition", "Deployment"})
                => i < j
          /\ (crt.writes[i].kind = "CustomResourceDefinition"
              /\ crt.writes[j].kind = "Deployment") => i < j
    /\ crt.phase = "done" =>
          /\ Len(crt.writes) = Len(crt.objs)
          /\ {crt.writes[k] : k \in 1..Len(crt.writes)}
                = {crt.objs[k] : k \in 1..Len(crt.objs)}

\* a bundle given with its Deployment first, its CustomResourceDefinition
\* second and its Namespace last was written, on a cluster that held some
\* of its objects
C20_ReversedBundleWritten ==
    /\ crt.phase = "done"
    /\ crt.objs[1].kind = "Deployment"
    /\ crt.objs[2].kind = "CustomResourceDefinition"
    /\ crt.objs[Len(crt.objs)].kind = "Namespace"
    /\ \E k \in 1..Len(crt.objs) : Has(crt.comp0, Ident(crt.objs[k]))
    /\ \E k \in 1..Len(crt.objs) : ~Has(crt.comp0, Ident(crt.objs[k]))

\* C34: whatever the order of the objects of the bundle, Create writes a Pod
\* of the bundle before its ReplicaSets, Deployments and Services
C34_PodBeforeControllers ==
    \A i, j \in 1..Len(crt.writes) :
        (crt.writes[i].kind = "Pod"
         /\ crt.writes[j].kind \in {"ReplicaSet", "Deployment", "Service"}) => i < j

\* C21: a round of Create that meets no store error writes its resource by
\* identity: a resource absent from the store is created with an empty
\* resource version, a resource present is updated with the resource
\* version the store holds, the store accepts the write, and the store then
\* holds the resource once; a Create that ends, the second one on the same
\* bundle included, leaves one stored object for each identity of the bundle
C21_CreateByIdentity ==
    [][(crt.phase = "running" /\ crt.todo # <<>> /\ faults' = faults) =>
          LET r == Head(crt.todo)
              id == Ident(r)
          IN /\ crt'.phase # "failed"
             /\ crt'.verbs[Len(crt'.verbs)] =
                   IF Has(comp.src, id)
                   THEN [verb |-> "update", rv |-> ResourceVersion(crt.rvs, id)]
                   ELSE [verb |-> "create", rv |-> 0]
             /\ {o \in comp'.src : Ident(o) = id} = {r}
             /\ ResourceVersion(crt'.rvs, id) =
                   IF Has(comp.src, id) THEN ResourceVersion(crt.rvs, id) + 1 ELSE 1
             /\ {o \in comp'.src : Ident(o) # id} = {o \in comp.src : Ident(o) # id}
             /\ crt'.phase = "done" =>
                   \A k \in 1..Len(crt.objs) :
                      Cardinality({o \in comp'.src : Ident(o) = Ident(crt.objs[k])}) = 1
      ]_vars

\* the same bundle was applied twice without error, on a cluster that held
\* some of its objects: these were updated twice, the others created and
\* then updated
C21_AppliedTwice ==
    /\ crt.runs = 2
    /\ crt.phase = "done"
    /\ faults = 0
    /\ \E e \in crt.rvs : e.rv = 2
    /\ \E e \in crt.rvs : e.rv = 3

(***************************************************************************)
(* metadataClient.GetDefaultProvider, GetDefaultVersion and                *)
(* GetDefaultNamespace, asked on a cluster with up to MaxRecords Provider  *)
(* records.                                                                *)
(***************************************************************************)
\* the value when the set holds one value, else the empty string
OnlyValue(values) ==
    IF Cardinality(values) = 1 THEN CHOOSE v \in values : TRUE ELSE ""

\* metadataClient.list with the Type option
listType(P, providerType) == {i \in P : ProviderType(i.name) = providerType}

GetDefaultProvider(P, providerType) ==
    OnlyValue({i.name : i \in listType(P, providerType)})

GetDefaultVersion(P, provider) == OnlyValue({i.version : i \in list(P, provider)})

GetDefaultNamespace(P, provider) == OnlyValue({i.ns : i \in list(P, provider)})

ProviderTypes == {"CoreProvider", "BootstrapProvider", "InfrastructureProvider"}

\* a call of one of the three: the answer, or the error of list
DefaultCall(op, arg, value) ==
    /\ \/ /\ cli' = [NoCli EXCEPT !.op = op, !.phase = "returned",
                                  !.got = <<arg>>, !.ret = value]
          /\ UNCHANGED faults
       \/ /\ faults < MaxFaults
          /\ faults' = faults + 1
          /\ cli' = [NoCli EXCEPT !.op = op, !.phase = "returned",
                                  !.got = <<arg>>, !.err = "list"]
    /\ UNCHANGED <<storeVars, pc, stack, hist, objs0, orig, installQueue, inst,
                   piv, del, crds, crt, cm>>

GetDefaultProviderCall ==
    \E t \in ProviderTypes :
        DefaultCall("GetDefaultProvider", t, GetDefaultProvider(prov.src, t))

GetDefaultVersionCall ==
    \E n \in {"aws", "core", "boot"} :
        DefaultCall("GetDefaultVersion", n, GetDefaultVersion(prov.src, n))

GetDefaultNamespaceCall ==
    \E n \in {"aws", "core", "boot"} :
        DefaultCall("GetDefaultNamespace", n, GetDefaultNamespace(prov.src, n))

\* the Provider records a cluster can hold: one for each namespace and name
InstalledRecords ==
    [ns : {"ns1", "ns2"}, name : {"aws", "core"}, version : {"v1", "v2"},
     watched : {"", "ns1", "ns2"}, rv : {"1"}]

InitDefaults ==
    /\ \E P \in SUBSET InstalledRecords :
          /\ Cardinality(P) <= MaxRecords
          /\ \A i, j \in P : SameKey(i, j) => i = j
          /\ prov = [src |-> P, tgt |-> {}]
    /\ comp = NoStore
    /\ objs = NoStore
    /\ pc = "idle"
    /\ stack = <<>>
    /\ hist = <<>>
    /\ faults = 0
    /\ objs0 = NoStore
    /\ orig = {}
    /\ installQueue = <<>>
    /\ inst = NoInst
    /\ piv = NoPiv
    /\ del = NoDel
    /\ crds = [src |-> Registry, tgt |-> Registry]
    /\ cli = NoCli
    /\ crt = NoCrt
    /\ cm = NoCm

NextDefaults ==
    GetDefaultProviderCall \/ GetDefaultVersionCall \/ GetDefaultNamespaceCall

SpecDefaults == InitDefaults /\ [][NextDefaults]_vars

\* the installed records that match the filter of the call made last
Matching ==
    IF cli.op = "GetDefaultProvider" THEN listType(prov.src, cli.got[1])
    ELSE list(prov.src, cli.got[1])

\* C22: GetDefaultProvider, GetDefaultVersion and GetDefaultNamespace
\* return a value only when exactly one installed record matches the
\* filter, and return the empty string and no error when none or several
\* match and list did not fail
C22_DefaultOnlyForOneRecord ==
    (cli.op \in {"GetDefaultProvider", "GetDefaultVersion", "GetDefaultNamespace"}
     /\ cli.err = "") =>
        (cli.ret # "" <=> Cardinality(Matching) = 1)

\* the calls that create an object in the target
CreateOps ==
    {"CreateCluster", "CreateUnstructuredObject", "CreateSecret",
     "CreateMachineDeployments", "CreateMachineSets", "CreateMachines"}

\* the owner reference names an object the target holds, by kind, name and UID
OwnerInTarget(r) ==
    \E t \in objs.tgt : t.kind = r.kind /\ t.name = r.name /\ t.uid = r.uid

\* C23: the object of every create the mover is about to make on the target
\* has an empty resource version; it has no owner reference when it is a
\* MachineDeployment, a MachineSet, a Machine or a referenced object, and
\* one owner reference when it is a Secret, to the Cluster the target holds,
\* with the UID the target gave it; every owner reference of an object
\* submitted or stored in the target names an object the target holds
C23_CreatedCleared ==
    /\ (pc = "running" /\ stack # <<>> /\ Head(stack).op \in CreateOps) =>
          LET o == Head(stack).arg
          IN /\ o.rv = ""
             /\ o.kind \in {"MachineDeployment", "MachineSet", "Machine"} \cup RefKinds
                   => o.owners = {}
             /\ o.kind = "Secret" =>
                   /\ Cardinality(o.owners) = 1
                   /\ \A r \in o.owners : r.kind = "Cluster" /\ ~r.controller
             /\ \A r \in o.owners : OwnerInTarget(r)
    /\ \A o \in objs.tgt : \A r \in o.owners : OwnerInTarget(r)

\* a Secret is in the target with the target Cluster as its owner, next to
\* a Machine that had a MachineSet as its controller in the source
C23_SecretAndMachineCreated ==
    /\ \E s \in OfKind(objs.tgt, "Secret") :
          \E r \in s.owners : r.uid = UID("tgt", "Cluster", r.name)
    /\ \E m \in OfKind(objs.tgt, "Machine") :
          /\ m.owners = {}
          /\ \E o \in orig : Ident(o) = Ident(m) /\ HasController(o)

\* a delete of the object was issued on the source: the object is gone, or
\* is kept by its finalizers with a deletion timestamp
DeleteIssued(o) ==
    ~Has(objs.src, Ident(o)) \/ Lookup(objs.src, Ident(o)).dts

\* the force-delete of the object has begun: it is the call to make next,
\* or its delete was issued
ForceDeleting(o) ==
    \/ DeleteIssued(o)
    \/ /\ pc = "running" /\ stack # <<>>
       /\ Head(stack).op \in {"ForceDeleteCluster", "ForceDeleteMachineDeployment",
                               "ForceDeleteMachineSet"}
       /\ Ident(Head(stack).arg) = Ident(o)

\* the objects of the source a parent is deleted after: the Machines
\* without deletion timestamp a MachineSet controls, the MachineSets a
\* MachineDeployment controls, and for a Cluster its infrastructure object,
\* its Secrets and the MachineDeployments, MachineSets and Machines without
\* deletion timestamp that carry its label
ChildrenOf(p) ==
    CASE p.kind = "MachineSet" ->
           {m \in OfKind(orig, "Machine") : ~m.dts /\ m.ns = p.ns /\ IsControlledBy(m, p)}
      [] p.kind = "MachineDeployment" ->
           {ms \in OfKind(orig, "MachineSet") : ms.ns = p.ns /\ IsControlledBy(ms, p)}
      [] p.kind = "Cluster" ->
           {o \in orig : \/ o.kind = p.infra.kind /\ o.name = p.infra.name
                         \/ o.kind = "Secret" /\ HasPrefix(o.name, p.name)
                         \/ /\ o.kind \in {"MachineDeployment", "MachineSet", "Machine"}
                            /\ o.label = p.name /\ ~o.dts}
      [] OTHER -> {}

C25_ParentsCreatedFirst ==
    \A c \in orig : \A p \in orig :
        (Has(objs.tgt, Ident(c)) /\ c \in ChildrenOf(p)) => Has(objs.tgt, Ident(p))

\* C26: the step at which a call of the mover fails writes to no store, and
\* no step writes after it until Pivot is called again; in a run the
\* target never loses an object and the source never gains one, so that
\* what was created or deleted before the failure stays so and every
\* object the run started with is in one of the stores
C26_AbortAtOnce ==
    [][ /\ (pc = "running" /\ pc' = "failed") => UNCHANGED storeVars
        /\ pc = "failed" => UNCHANGED storeVars
        /\ pc = "running" =>
              /\ Idents(objs.tgt) \subseteq Idents(objs'.tgt)
              /\ Idents(objs'.src) \subseteq Idents(objs.src)
        /\ pc' = "failed" =>
              \A o \in objs0'.src :
                  \/ Has(objs'.tgt, Ident(o))
                  \/ Has(objs'.src, Ident(o))
      ]_vars

\* a store error ended a run that had created and deleted objects and had
\* more to move
C26_AbortedByStoreError ==
    /\ pc = "failed"
    /\ hist[Len(hist)] = "store"
    /\ objs # objs0
    /\ \E o \in objs0.src : Has(objs.tgt, Ident(o)) /\ ~Has(objs.src, Ident(o))
    /\ \E o \in Carried(objs0.src) : Has(objs.src, Ident(o)) /\ ~Has(objs.tgt, Ident(o))

\* C27: a Machine that has a deletion timestamp when Pivot is called is
\* never in the target and stays in the source as it was, finalizers
\* included; when Pivot has returned nil, every other Machine is in the
\* target and no longer in the source
C27_DeletingMachinesStay ==
    /\ \A m \in OfKind(orig, "Machine") :
          m.dts => ~Has(objs.tgt, Ident(m)) /\ m \in objs.src
    /\ (pc = "done" /\ Len(hist) = 1) =>
          \A m \in OfKind(orig, "Machine") : ~m.dts => Moved(m)

\* Pivot returned nil; the list of the Machines of the Cluster held one with
\* a deletion timestamp, which is still in the source, and one without,
\* which was moved
C27_SiblingMoved ==
    /\ pc = "done"
    /\ \E c \in OfKind(orig, "Cluster") :
          \E m, n \in OfKind(orig, "Machine") :
             /\ m.label = c.name /\ n.label = c.name
             /\ m.dts /\ m \in objs.src
             /\ ~n.dts /\ Moved(n)

\* C28: a force-delete of the mover that returns no error first updates the
\* object without finalizers and then deletes it, and the object is then
\* gone from the source: the ForceDelete of a Cluster, MachineDeployment,
\* MachineSet, Machine or referenced object that is found clears the
\* finalizers and goes on with the Delete, and after the Delete, or after
\* ForceDeleteSecret, the source no longer holds the object
C28_ForceDeleteRemoves ==
    [][(pc = "running" /\ stack # <<>> /\ pc' # "failed") =>
          LET call == Head(stack)
          IN /\ (/\ call.op \in {"ForceDeleteCluster", "ForceDeleteMachineDeployment",
                                  "ForceDeleteMachineSet", "ForceDeleteMachine",
                                  "ForceDeleteUnstructuredObject"}
                 /\ Has(objs.src, Ident(call.arg)))
                   => /\ ~Lookup(objs'.src, Ident(call.arg)).fin
                      /\ stack' # <<>>
                      /\ Head(stack') = Call("Delete", Ident(call.arg))
             /\ call.op = "Delete" => ~Has(objs'.src, call.arg)
             /\ call.op = "ForceDeleteSecret" => ~Has(objs'.src, Ident(call.arg))
      ]_vars

(***************************************************************************)
(* objectsClient.CreateMachines: one goroutine for each Machine of the     *)
(* batch, a WaitGroup, and an error slot guarded by a sync.Once.           *)
(***************************************************************************)
MachineNames == <<"m1", "m2", "m3", "m4">>

\* a batch of n Machines, as the mover submits them
BatchOf(n) ==
    [i \in 1..n |->
        Cleared(Obj("Machine", MachineNames[i], "", {},
                    Ref("ProviderMachine", MachineNames[i]), NoRef, FALSE, FALSE))]

\* a wait that ends when one goroutine has finished
wgWaitAny(g) == \E i \in 1..Len(g) : g[i] = "done"

\* wg.Wait: every goroutine has called wg.Done
wgWait(g) == \A i \in 1..Len(g) : g[i] = "done"

\* an error slot every failing goroutine assigns
errAssign(once, gerr, e) == e

\* errOnce.Do(func() { gerr = e }): the function runs in the first call only
errOnceDo(once, gerr, e) == IF once THEN gerr ELSE e

\* CreateMachines is called: the goroutines are started
CreateMachinesCall ==
    /\ cm.phase = "idle"
    /\ \E n \in 1..MaxMachines :
          cm' = [NoCm EXCEPT !.phase = "running", !.machines = BatchOf(n),
                             !.g = [i \in 1..n |-> "create"],
                             !.errs = [i \in 1..n |-> ""]]
    /\ UNCHANGED <<storeVars, moverVars, installQueue, inst, piv, del, crds, cli, crt>>

\* cs.Create in the goroutine of a Machine: the store refuses it when the
\* Machine exists, and the call can fail otherwise
GoCreate ==
    /\ cm.phase \in {"running", "returned"}
    /\ \E i \in 1..Len(cm.g) :
          /\ cm.g[i] = "create"
          /\ \/ /\ CanCreate(objs.tgt, cm.machines[i])
                /\ objs' = [objs EXCEPT !.tgt = StoreCreate(@, cm.machines[i], "tgt")]
                /\ cm' = [cm EXCEPT !.g[i] = "wait", !.late = @ \/ cm.once]
             \/ /\ cm' = [cm EXCEPT !.g[i] = "record", !.errs[i] = "create"]
                /\ UNCHANGED objs
    /\ UNCHANGED <<comp, prov, moverVars, installQueue, inst, piv, del, crds, cli, crt>>

\* WaitForMachineReady in the goroutine: the node reference is seen before
\* the timeout, or it is not
GoWaitForMachineReady ==
    /\ cm.phase \in {"running", "returned"}
    /\ \E i \in 1..Len(cm.g) :
          /\ cm.g[i] = "wait"
          /\ \/ cm' = [cm EXCEPT !.g[i] = "done",
                                   !.ready = @ \cup {Ident(cm.machines[i])}]
             \/ cm' = [cm EXCEPT !.g[i] = "record", !.errs[i] = "wait"]
    /\ UNCHANGED <<storeVars, moverVars, installQueue, inst, piv, del, crds, cli, crt>>

\* errOnce.Do in the goroutine that failed, and the deferred wg.Done
GoErrOnce ==
    /\ cm.phase \in {"running", "returned"}
    /\ \E i \in 1..Len(cm.g) :
          /\ cm.g[i] = "record"
          /\ \E e \in {errOnceDo(cm.once, cm.gerr, <<i, cm.errs[i]>>)} :
                cm' = [cm EXCEPT !.g[i] = "done", !.once = TRUE, !.gerr = e,
                                 !.writes = IF e # cm.gerr THEN @ + 1 ELSE @,
                                 !.order = Append(@, i)]
    /\ UNCHANGED <<storeVars, moverVars, installQueue, inst, piv, del, crds, cli, crt>>

\* wg.Wait returned: CreateMachines returns gerr
CreateMachinesReturn ==
    /\ cm.phase = "running"
    /\ wgWait(cm.g)
    /\ cm' = [cm EXCEPT !.phase = "returned", !.ret = cm.gerr]
    /\ UNCHANGED <<storeVars, moverVars, installQueue, inst, piv, del, crds, cli, crt>>

\* the target is empty or holds one Machine of the batch
InitMachines ==
    /\ \E T \in {{}} \cup {StoreCreate({}, BatchOf(MaxMachines)[i], "tgt") :
                              i \in 1..MaxMachines} :
          objs = [src |-> {}, tgt |-> T]
    /\ comp = NoStore
    /\ prov = NoStore
    /\ pc = "idle"
    /\ stack = <<>>
    /\ hist = <<>>
    /\ faults = 0
    /\ objs0 = NoStore
    /\ orig = {}
    /\ installQueue = <<>>
    /\ inst = NoInst
    /\ piv = NoPiv
    /\ del = NoDel
    /\ crds = [src |-> Registry, tgt |-> Registry]
    /\ cli = NoCli
    /\ crt = NoCrt
    /\ cm = NoCm

NextMachines ==
    \/ CreateMachinesCall
    \/ GoCreate
    \/ GoWaitForMachineReady
    \/ GoErrOnce
    \/ CreateMachinesReturn

SpecMachines == InitMachines /\ [][NextMachines]_vars

\* C29: when CreateMachines has returned, with an error or without, the
\* goroutine of every Machine of the batch has finished, and every Machine
\* whose create did not fail is in the target
C29_AllGoroutinesFinish ==
    cm.phase = "returned" =>
        \A i \in 1..Len(cm.machines) :
            /\ cm.g[i] = "done"
            /\ cm.errs[i] # "create" => Has(objs.tgt, Ident(cm.machines[i]))

\* CreateMachines returned an error, and a Machine was created after the
\* error was recorded
C29_SlowSiblingCreated ==
    /\ cm.phase = "returned"
    /\ cm.ret # <<>>
    /\ cm.late

\* C30: gerr is assigned at most once; the value CreateMachines returns is
\* the error of the goroutine that called errOnce.Do first, and it is nil
\* exactly when no goroutine met an error
C30_FirstErrorWins ==
    /\ cm.writes <= 1
    /\ cm.phase = "returned" =>
          /\ cm.ret = <<>> <=> \A i \in 1..Len(cm.errs) : cm.errs[i] = ""
          /\ cm.order # <<>> => cm.ret = <<cm.order[1], cm.errs[cm.order[1]]>>

\* three goroutines failed, the one started last first
C30_LaterFailuresDropped ==
    /\ cm.phase = "returned"
    /\ Len(cm.order) = 3
    /\ cm.order[1] = 3
    /\ cm.ret = <<3, cm.errs[3]>>

\* C31: a Delete that does not delete the CustomResourceDefinitions and
\* returns nil has scaled every controller Deployment of the provider to
\* zero replicas when it lists the resources to delete, and has deleted
\* nothing by then; a Delete whose scale-down fails deletes no object and
\* no record; a Delete that deletes the CustomResourceDefinitions scales
\* nothing down
C31_ScaleDownBeforeDelete ==
    del.called =>
        /\ (~del.forceDeleteCRD /\ del.err = "") =>
              /\ \A o \in Controllers(del.comp1, del.provider) : o.replicas = 0
              /\ Idents(del.comp1) = Idents(del.comp0)
        /\ del.err = "scale" =>
              /\ ~del.forceDeleteCRD
              /\ Idents(comp.src) = Idents(del.comp0)
              /\ prov.src = del.prov0
        /\ del.forceDeleteCRD => del.comp1 = del.comp0 /\ del.err = ""

\* a Delete that keeps the CustomResourceDefinitions returned nil: the
\* controller of the provider was running, and was deleted
C31_RunningControllerDeleted ==
    /\ del.called /\ del.err = "" /\ ~del.forceDeleteCRD
    /\ \E o \in Controllers(del.comp0, del.provider) :
          o.replicas > 0 /\ ~Has(comp.src, Ident(o))

\* C33: the force-delete of a Machine begins only when the wait for the
\* node reference of its copy has ended well and the copy is in the target;
\* the step at which the wait times out ends the Pivot with the error and
\* leaves the Machine in the source and its copy in the target
C33_DeletedAfterReady ==
    [][ /\ \A m \in OfKind(orig', "Machine") :
              (/\ ~m.dts
               /\ \/ m \notin objs'.src
                  \/ /\ pc' = "running" /\ stack' # <<>>
                     /\ Head(stack') = Call("ForceDeleteMachine", m))
                 => Ident(m) \in cm'.ready /\ Has(objs'.tgt, Ident(m))
        /\ (Len(hist') > Len(hist) /\ hist'[Len(hist')] = "timeout") =>
              /\ pc' = "failed"
              /\ Head(stack).op = "WaitForMachineReady"
              /\ Head(stack).arg \in objs'.src
              /\ Has(objs'.tgt, Ident(Head(stack).arg))
              /\ UNCHANGED storeVars
      ]_vars

\* the wait for one Machine timed out after another Machine was moved
C33_TimedOutAfterSibling ==
    /\ pc = "failed"
    /\ hist[Len(hist)] = "timeout"
    /\ \E m \in OfKind(orig, "Machine") : Ident(m) \in cm.ready /\ Moved(m)
    /\ \E m \in OfKind(orig, "Machine") :
          Ident(m) \notin cm.ready /\ m \in objs.src /\ Has(objs.tgt, Ident(m))

(***************************************************************************)
(* SpecGraphs: objectsClient.Pivot on source graphs where objects share    *)
(* something: a MachineSet with two Machines, two MachineSets or two       *)
(* MachineDeployments with one template, two Clusters of one namespace     *)
(* whose names begin alike.                                                *)
(***************************************************************************)
\* a MachineSet or MachineDeployment that references the template of another
Sharing(kind, name, template) ==
    Obj(kind, name, "", {}, Ref("ProviderMachineTemplate", template), NoRef,
        FALSE, FALSE)

GraphStores ==
    { WithMachineSet("", "", "s2", NoRef, FALSE)
        \cup WithMachine("", "s2", "m2", FALSE, FALSE, FALSE)
        \cup WithMachine("", "s2", "m3", FALSE, FALSE, FALSE),
      WithMachineSet("", "", "s1", NoRef, FALSE)
        \cup {Sharing("MachineSet", "s2", "s1")},
      WithMachineDeployment("", "d1", FALSE)
        \cup {Sharing("MachineDeployment", "d2", "d1")},
      WithCluster("c1", "c1-kubeconfig", FALSE)
        \cup WithCluster("c10", "c10-kubeconfig", FALSE) }

InitGraphs ==
    /\ objs \in {[src |-> S, tgt |-> {}] : S \in GraphStores}
    /\ comp = NoStore
    /\ prov = NoStore
    /\ pc = "idle"
    /\ stack = <<>>
    /\ hist = <<>>
    /\ faults = 0
    /\ objs0 = NoStore
    /\ orig = {}
    /\ installQueue = <<>>
    /\ inst = NoInst
    /\ piv = NoPiv
    /\ del = NoDel
    /\ crds = [src |-> Registry, tgt |-> Registry]
    /\ cli = NoCli
    /\ crt = NoCrt
    /\ cm = NoCm

NextGraphs == Pivot \/ MoverStep

SpecGraphs == InitGraphs /\ [][NextGraphs]_vars

\* the Machines moveMachines gets in one list with m: those with its
\* controller
BatchWith(m) ==
    {n \in OfKind(orig, "Machine") :
        /\ ~n.dts
        /\ {r \in n.owners : r.controller} = {r \in m.owners : r.controller}}

\* C32: when the mover waits for the node reference of a Machine, every
\* Machine of its batch was created in the target
C32_BatchCreatedTogether ==
    (Top("WaitForMachineReady") /\ Len(hist) = 0) =>
        \A n \in BatchWith(Arg) : Has(objs.tgt, Ident(n))

\* the infrastructure and bootstrap objects referenced by the objects that
\* move their references: every graph object but a MachineSet with a
\* controller
Referenced(S) ==
    {o \in S : \E g \in S :
        /\ ~(g.kind = "MachineSet" /\ HasController(g))
        /\ \/ g.infra.kind = o.kind /\ g.infra.name = o.name
           \/ g.boot.kind = o.kind /\ g.boot.name = o.name}

\* C36: a Pivot that meets no store error, no cluster that is not ready and
\* no timeout returns nil, also when several objects reference one
\* infrastructure object, and every referenced object is then in the
\* target and gone from the source
C36_SharedReferenceMovedOnce ==
    (pc \in {"done", "failed"} /\ Len(hist) = 1
     /\ hist[1] \notin {"store", "notready", "timeout"}) =>
        /\ hist[1] = "ok"
        /\ \A o \in Referenced(orig) : Moved(o)

\* C40: when Pivot has returned nil, the Secret named after a Cluster
\* (<name>-kubeconfig) has one owner in the target, the Cluster of that name
C40_SecretOwnedByOwnCluster ==
    (pc = "done" /\ Len(hist) = 1) =>
        \A c \in OfKind(orig, "Cluster") : \A s \in OfKind(objs.tgt, "Secret") :
            Chars(s.name) = Chars(c.name) \o <<"-kubeconfig">>
                => s.owners = {OwnerRef("Cluster", c.name, FALSE, "tgt")}

(***************************************************************************)
(* SpecUpgrade: installers working on a cluster where one provider was     *)
(* installed with an older version.                                        *)
(***************************************************************************)
\* the bundle b as an earlier release gave it
Older(b) == [b EXCEPT !.version = "v0"]

InitUpgrade ==
    /\ \E b \in Bundles :
          /\ comp = [src |-> Installed(<<Older(b)>>).comp, tgt |-> {}]
          /\ prov = [src |-> Installed(<<Older(b)>>).prov, tgt |-> {}]
    /\ objs = NoStore
    /\ pc = "idle"
    /\ stack = <<>>
    /\ hist = <<>>
    /\ faults = 0
    /\ objs0 = NoStore
    /\ orig = {}
    /\ installQueue = <<>>
    /\ inst = NoInst
    /\ piv = NoPiv
    /\ del = NoDel
    /\ crds = [src |-> Registry, tgt |-> Registry]
    /\ cli = NoCli
    /\ crt = NoCrt
    /\ cm = NoCm

NextUpgrade == ProviderInstaller \/ Add \/ Install

SpecUpgrade == InitUpgrade /\ [][NextUpgrade]_vars

\* C35: an Install that meets no store error, of the one bundle of its
\* queue, on a cluster that holds a record with the namespace and name of
\* the bundle and another version, returns nil and leaves one record with
\* that namespace and name, which holds the version of the bundle
C35_ReinstallUpdatesRecord ==
    (/\ inst.result \in {"ok", "state"} /\ inst.result2 = ""
     /\ Len(installQueue) = 1
     /\ \E i \in inst.prov0 : /\ SameKey(i, installQueue[1])
                               /\ i.version # installQueue[1].version) =>
        /\ inst.result = "ok"
        /\ Cardinality({i \in prov.src : SameKey(i, installQueue[1])}) = 1
        /\ \A i \in prov.src :
              SameKey(i, installQueue[1]) => i.version = installQueue[1].version

====
